---------------------------- MODULE Spec2Model ----------------------------
(***************************************************************************)
(* A model of the input-event pacing engine of RAC (rac-clicker).          *)
(*                                                                         *)
(*   - SyncController (input/sync_controller.rs): the activation gate, an  *)
(*     AtomicBool plus a Mutex<bool> with a Condvar, under concurrent      *)
(*     callers of toggle / force_enable / wait_for_signal and of the       *)
(*     ClickService control surface built on them.                         *)
(*   - DelayProvider (input/delay_provider.rs): the 512-slot ring buffer   *)
(*     of precomputed delays.                                              *)
(*                                                                         *)
(* Every atomic access and every critical section of the source is one     *)
(* step of the thread that performs it.                                    *)
(***************************************************************************)
EXTENDS Integers, Sequences, FiniteSets, TLC

(***************************************************************************)
(* Bounds of the model.                                                    *)
(***************************************************************************)
\* threads that call the control surface (menu, hotkey handler, ...)
NCallers == 2
\* threads that call wait_for_signal in a loop (pacing loops)
NWaiters == 1
\* control-surface calls per caller thread
MaxCalls == 2

Callers == 1..NCallers
Waiters == (NCallers + 1)..(NCallers + NWaiters)
Threads == Callers \cup Waiters
NoThread == 0

VARIABLES
    \* SyncController
    enabled,        \* enabled: AtomicBool
    mutex,          \* the bool guarded by mutex: Mutex<bool>
    mutex_owner,    \* the thread holding the MutexGuard, or NoThread
    condvar,        \* the threads blocked in condvar.wait_timeout
    \* per thread
    pc,             \* position of each thread in the code
    op,             \* the control-surface / gate operation a thread is in (or last ran)
    new_state,      \* toggle's local new_state (TRUE in force_enable)
    returned,       \* the most recent return: the operation, the value it returned
                    \* and whether the call notified the condition variable
    wake,           \* how the thread's last wait_timeout ended
    calls,          \* calls a caller thread has started
    \* DelayProvider (durations in microseconds; the f64 millisecond range
    \* bounds are held in thousandths of a millisecond)
    delay_buffer,           \* delay_buffer: Vec<Duration>
    current_index,          \* current_index: usize
    delay_range_min,        \* delay_range_min: f64
    delay_range_max,        \* delay_range_max: f64
    random_deviation_min,   \* random_deviation_min: i32
    random_deviation_max,   \* random_deviation_max: i32
    burst_mode,             \* burst_mode: bool
    burst_counter,          \* burst_counter: u8
    panicked,               \* a call on the provider has panicked
    burst_served,           \* history: a burst delay has been returned since the
                            \* provider was built or burst mode last toggled
    last_call,              \* the most recent DelayProvider call: the operation, its
                            \* result and the buffer slot it read
    \* ClickService: the shared Handle, and per channel the ClickExecutor and
    \* the locals of click_loop
    hwnd,                   \* hwnd: Arc<Mutex<Handle>>, the handle it holds
    click_controller,       \* left_click_controller / right_click_controller
    delay_provider,         \* left_delay_provider / right_delay_provider
    click_executor,         \* left_click_executor / right_click_executor
    executed,               \* the most recent execute_click call of a channel: its
                            \* argument, its result, the messages it posted and
                            \* the sleeps it took
    consecutive_failures,   \* click_loop's consecutive_failures
    failure_run,            \* history: failed execute_click calls in a row
    iteration,              \* the most recent click_loop iteration of a channel that
                            \* reached execute_click
    iterations,             \* history: click_loop iterations that reached execute_click
    thread_controller,      \* left_thread_controller / right_thread_controller
    settings,               \* settings: Arc<Mutex<Settings>>, the snapshot it holds
    clock,                  \* per channel, in microseconds: the time on its thread
                            \* (Instant::now()), click_loop's last_click, and
                            \* history: the time it spent with the button up
    smart_sleep,            \* the smart_sleep call in progress or last made: its
                            \* duration, its local `remaining`, and history: the
                            \* sleeps and yields it has made so far
    key_state,              \* per channel: whether GetAsyncKeyState reports its
                            \* mouse button down
    \* WindowFinder and the platform it looks at
    window_finder,          \* window_finder: Arc<WindowFinder>
    processes,              \* the process table: the name of the process of each pid
    windows,                \* the top-level windows: owner pid and visibility
    found,                  \* the most recent WindowFinder call and its result
    check_interval,         \* window_finder_loop's check_interval, in seconds
    finding                 \* the find_target_window call in progress on the discovery
                            \* thread: its position and its local `target_pid`

gateVars == <<enabled, mutex, mutex_owner, condvar, pc, op, new_state, returned, wake, calls>>

delayVars == <<delay_buffer, current_index, delay_range_min, delay_range_max,
               random_deviation_min, random_deviation_max, burst_mode, burst_counter,
               panicked, burst_served, last_call>>

clickVars == <<click_controller, delay_provider, click_executor, executed,
               consecutive_failures, failure_run, iteration, iterations,
               thread_controller, settings, clock, smart_sleep, key_state>>

finderVars == <<window_finder, processes, windows, found, check_interval, finding>>

vars == <<gateVars, delayVars, hwnd, clickVars, finderVars>>

(***************************************************************************)
(* SyncController::new: both views false, nobody waiting.  Threads listed  *)
(* in `active` are running; the others are never started.                  *)
(***************************************************************************)
GateNew(active, e) ==
    /\ enabled = e
    /\ mutex = e
    /\ mutex_owner = NoThread
    /\ condvar = {}
    /\ pc = [t \in Threads |-> IF t \in active THEN "idle" ELSE "off"]
    /\ op = [t \in Threads |-> "none"]
    /\ new_state = [t \in Threads |-> FALSE]
    /\ returned = [op |-> "none", value |-> FALSE, notified |-> FALSE]
    /\ wake = [t \in Threads |-> "none"]
    /\ calls = [t \in Threads |-> 0]

Returned(t, v, n) ==
    /\ returned' = [op |-> op[t], value |-> v, notified |-> n]
    /\ op' = [op EXCEPT ![t] = "none"]

\* the return of a call: the thread is idle again, its result recorded
Return(t, v) ==
    /\ pc' = [pc EXCEPT ![t] = "idle"]
    /\ Returned(t, v, FALSE)

\* a call's locals go out of scope when it returns
Drop(t) == new_state' = [new_state EXCEPT ![t] = FALSE]

Goto(t, l) == pc' = [pc EXCEPT ![t] = l]

(***************************************************************************)
(* A caller thread starts a call.                                          *)
(***************************************************************************)
Call(t, o, l) ==
    /\ t \in Callers
    /\ pc[t] = "idle"
    /\ calls[t] < MaxCalls
    /\ calls' = [calls EXCEPT ![t] = @ + 1]
    /\ op' = [op EXCEPT ![t] = o]
    /\ Goto(t, l)
    /\ UNCHANGED <<enabled, mutex, mutex_owner, condvar, new_state, returned, wake>>
    /\ UNCHANGED <<delayVars, hwnd, clickVars, finderVars>>

CallToggle(t) == Call(t, "toggle", "t_load")

CallForceEnable(t) == Call(t, "force_enable", "fe_load")

CallForceDisableLeft(t) == Call(t, "force_disable_left_clicking", "sfd_check")

CallForceDisableClicking(t) == Call(t, "force_disable_clicking", "fdc_check1")

(***************************************************************************)
(* condvar.notify_all() by thread t, which then drops the guard and        *)
(* returns v: every thread blocked on the condition variable is woken (it  *)
(* still has to reacquire the mutex).                                      *)
(***************************************************************************)
\* the notification forgotten: nobody is woken
NotifyLost(t, v) ==
    /\ pc' = [pc EXCEPT ![t] = "idle"]
    /\ Returned(t, v, TRUE)
    /\ UNCHANGED <<condvar, wake>>

Notify(t, v) ==
    LET woken == condvar IN
    /\ condvar' = condvar \ woken
    /\ pc' = [x \in Threads |->
                IF x = t THEN "idle"
                ELSE IF x \in woken THEN "w_woken" ELSE pc[x]]
    /\ wake' = [x \in Threads |-> IF x \in woken THEN "notified" ELSE wake[x]]
    /\ Returned(t, v, TRUE)

(***************************************************************************)
(* SyncController::toggle                                                  *)
(***************************************************************************)
\* let new_state = !self.enabled.load(SeqCst);
ToggleLoad(t) ==
    /\ pc[t] = "t_load"
    /\ new_state' = [new_state EXCEPT ![t] = ~enabled]
    /\ Goto(t, "t_store")
    /\ UNCHANGED <<enabled, mutex, mutex_owner, condvar, op, returned, wake, calls>>
    /\ UNCHANGED <<delayVars, hwnd, clickVars, finderVars>>

\* self.enabled.store(new_state, SeqCst);
ToggleStore(t) ==
    /\ pc[t] = "t_store"
    /\ enabled' = new_state[t]
    /\ Goto(t, "t_lock")
    /\ UNCHANGED <<mutex, mutex_owner, condvar, op, new_state, returned, wake, calls>>
    /\ UNCHANGED <<delayVars, hwnd, clickVars, finderVars>>

\* toggle() returns the state it found
ToggleResultOld(t) == ~new_state[t]

\* what a finished toggle() hands back to the control-surface call that made it:
\* force_disable_clicking discards toggle's result and returns true
ToggleResult(t) == IF op[t] = "force_disable_clicking" THEN TRUE ELSE new_state[t]

\* let mut enabled = self.mutex.lock().unwrap(); *enabled = new_state;
\* self.condvar.notify_all(); new_state  (the guard is dropped)
\* The critical section touches only what the mutex guards: one step.
ToggleLock(t) ==
    /\ pc[t] = "t_lock"
    /\ mutex_owner = NoThread
    /\ mutex' = new_state[t]
    /\ Notify(t, ToggleResult(t))
    /\ Drop(t)
    /\ UNCHANGED <<enabled, mutex_owner, calls>>
    /\ UNCHANGED <<delayVars, hwnd, clickVars, finderVars>>

(***************************************************************************)
(* SyncController::force_enable                                            *)
(***************************************************************************)
\* the early return dropped: force_enable always stores and notifies
ForceEnableLoadAlways(t) ==
    /\ pc[t] = "fe_load"
    /\ Goto(t, "fe_store")
    /\ UNCHANGED <<enabled, mutex, mutex_owner, condvar, op, new_state, returned, wake, calls>>
    /\ UNCHANGED <<delayVars, hwnd, clickVars, finderVars>>

\* if self.enabled.load(SeqCst) { return true; }
ForceEnableLoad(t) ==
    /\ pc[t] = "fe_load"
    /\ IF enabled
         THEN Return(t, TRUE)
         ELSE Goto(t, "fe_store") /\ UNCHANGED <<returned, op>>
    /\ UNCHANGED <<enabled, mutex, mutex_owner, condvar, new_state, wake, calls>>
    /\ UNCHANGED <<delayVars, hwnd, clickVars, finderVars>>

\* self.enabled.store(true, SeqCst);
ForceEnableStore(t) ==
    /\ pc[t] = "fe_store"
    /\ enabled' = TRUE
    /\ new_state' = [new_state EXCEPT ![t] = TRUE]
    /\ Goto(t, "fe_lock")
    /\ UNCHANGED <<mutex, mutex_owner, condvar, op, returned, wake, calls>>
    /\ UNCHANGED <<delayVars, hwnd, clickVars, finderVars>>

\* let mut enabled = self.mutex.lock().unwrap(); *enabled = true;
\* self.condvar.notify_all(); true  (the guard is dropped)
ForceEnableLock(t) ==
    /\ pc[t] = "fe_lock"
    /\ mutex_owner = NoThread
    /\ mutex' = TRUE
    /\ Notify(t, TRUE)
    /\ Drop(t)
    /\ UNCHANGED <<enabled, mutex_owner, calls>>
    /\ UNCHANGED <<delayVars, hwnd, clickVars, finderVars>>

(***************************************************************************)
(* ClickService control surface on one gate.                               *)
(***************************************************************************)
\* force_disable_left_clicking / force_disable_right_clicking:
\* if !controller.is_enabled() { return true; }  controller.toggle()
ForceDisableLeftCheck(t) ==
    /\ pc[t] = "sfd_check"
    /\ IF ~enabled
         THEN Return(t, TRUE)
         ELSE Goto(t, "t_load") /\ UNCHANGED <<returned, op>>
    /\ UNCHANGED <<enabled, mutex, mutex_owner, condvar, new_state, wake, calls>>
    /\ UNCHANGED <<delayVars, hwnd, clickVars, finderVars>>

\* force_disable_clicking: if !self.is_enabled() { return true; }
ForceDisableClickingCheck1(t) ==
    /\ pc[t] = "fdc_check1"
    /\ IF ~enabled
         THEN Return(t, TRUE)
         ELSE Goto(t, "fdc_check2") /\ UNCHANGED <<returned, op>>
    /\ UNCHANGED <<enabled, mutex, mutex_owner, condvar, new_state, wake, calls>>
    /\ UNCHANGED <<delayVars, hwnd, clickVars, finderVars>>

\* force_disable_clicking: if self.sync_controller.is_enabled() { toggle(); }  true
ForceDisableClickingCheck2(t) ==
    /\ pc[t] = "fdc_check2"
    /\ IF enabled
         THEN Goto(t, "t_load") /\ UNCHANGED <<returned, op>>
         ELSE Return(t, TRUE)
    /\ UNCHANGED <<enabled, mutex, mutex_owner, condvar, new_state, wake, calls>>
    /\ UNCHANGED <<delayVars, hwnd, clickVars, finderVars>>

(***************************************************************************)
(* SyncController::wait_for_signal, called in a loop by a waiter thread    *)
(* (ClickService::click_loop: while !panicking { if !wait_for_signal(50ms) *)
(* { continue; } ... }).                                                   *)
(***************************************************************************)
WaitCall(w) ==
    /\ w \in Waiters
    /\ pc[w] = "idle"
    /\ op' = [op EXCEPT ![w] = "wait_for_signal"]
    /\ wake' = [wake EXCEPT ![w] = "none"]
    /\ Goto(w, "w_lock")
    /\ UNCHANGED <<enabled, mutex, mutex_owner, condvar, new_state, returned, calls>>
    /\ UNCHANGED <<delayVars, hwnd, clickVars, finderVars>>

\* the guarded bool is used as it is found, without a look at the atomic flag
WaitLockNoSync(w) ==
    /\ pc[w] = "w_lock"
    /\ mutex_owner = NoThread
    /\ IF mutex
         THEN Return(w, mutex) /\ UNCHANGED mutex_owner
         ELSE /\ Goto(w, "w_wait")
              /\ mutex_owner' = w
              /\ UNCHANGED <<returned, op>>
    /\ UNCHANGED <<enabled, mutex, condvar, new_state, wake, calls>>
    /\ UNCHANGED <<delayVars, hwnd, clickVars, finderVars>>

\* the guarded bool is only raised from the atomic flag, never lowered
WaitLockRaises(w) ==
    /\ pc[w] = "w_lock"
    /\ mutex_owner = NoThread
    /\ mutex' = (mutex \/ enabled)
    /\ IF mutex'
         THEN Return(w, mutex') /\ UNCHANGED mutex_owner
         ELSE /\ Goto(w, "w_wait")
              /\ mutex_owner' = w
              /\ UNCHANGED <<returned, op>>
    /\ UNCHANGED <<enabled, condvar, new_state, wake, calls>>
    /\ UNCHANGED <<delayVars, hwnd, clickVars, finderVars>>

\* let mut enabled = self.mutex.lock().unwrap();
\* let atomic_enabled = self.enabled.load(SeqCst);
\* if *enabled != atomic_enabled { *enabled = atomic_enabled; }
\* if !*enabled { ...wait_timeout... }  *enabled
\* With the gate enabled the call returns here, dropping the guard; otherwise
\* the thread, holding the guard, is about to block.
WaitLock(w) ==
    /\ pc[w] = "w_lock"
    /\ mutex_owner = NoThread
    /\ mutex' = IF mutex # enabled THEN enabled ELSE mutex
    /\ IF mutex'
         THEN Return(w, mutex') /\ UNCHANGED mutex_owner
         ELSE /\ Goto(w, "w_wait")
              /\ mutex_owner' = w
              /\ UNCHANGED <<returned, op>>
    /\ UNCHANGED <<enabled, condvar, new_state, wake, calls>>
    /\ UNCHANGED <<delayVars, hwnd, clickVars, finderVars>>

\* self.condvar.wait_timeout(enabled, timeout): the guard is released and the
\* thread blocks on the condition variable, in one atomic step
WaitBlock(w) ==
    /\ pc[w] = "w_wait"
    /\ mutex_owner' = NoThread
    /\ condvar' = condvar \cup {w}
    /\ Goto(w, "w_blocked")
    /\ UNCHANGED <<enabled, mutex, op, new_state, returned, wake, calls>>
    /\ UNCHANGED <<delayVars, hwnd, clickVars, finderVars>>

\* the wait ends without a notification: the timeout elapsed (a spurious wakeup,
\* which std::sync::Condvar permits, leaves the thread in the same state)
WaitTimeout(w) ==
    /\ pc[w] = "w_blocked"
    /\ w \in condvar
    /\ condvar' = condvar \ {w}
    /\ wake' = [wake EXCEPT ![w] = "timeout"]
    /\ Goto(w, "w_woken")
    /\ UNCHANGED <<enabled, mutex, mutex_owner, op, new_state, returned, calls>>
    /\ UNCHANGED <<delayVars, hwnd, clickVars, finderVars>>

\* a condition-variable loop: the thread waits again while the bool is false
WaitReacquireLoop(w) ==
    /\ pc[w] = "w_woken"
    /\ mutex_owner = NoThread
    /\ mutex' = IF ~mutex /\ enabled THEN TRUE ELSE mutex
    /\ IF mutex'
         THEN Return(w, mutex') /\ UNCHANGED mutex_owner
         ELSE /\ Goto(w, "w_wait")
              /\ mutex_owner' = w
              /\ UNCHANGED <<returned, op>>
    /\ UNCHANGED <<enabled, condvar, new_state, wake, calls>>
    /\ UNCHANGED <<delayVars, hwnd, clickVars, finderVars>>

\* wait_timeout returns with the guard reacquired: enabled = result.0;
\* if !*enabled && self.enabled.load(SeqCst) { *enabled = true; }
\* *enabled  (the guard is dropped)
WaitReacquire(w) ==
    /\ pc[w] = "w_woken"
    /\ mutex_owner = NoThread
    /\ mutex' = IF ~mutex /\ enabled THEN TRUE ELSE mutex
    /\ Return(w, mutex')
    /\ UNCHANGED <<enabled, mutex_owner, condvar, new_state, wake, calls>>
    /\ UNCHANGED <<delayVars, hwnd, clickVars, finderVars>>

(***************************************************************************)
(* DelayProvider                                                           *)
(***************************************************************************)
\* vec![Duration::ZERO; 512]
BufferLen == 512
\* (self.current_index + 1) & 511
IndexMask == 511
\* Duration::from_micros(45000), the floor of every returned delay
FloorMicros == 45000
\* rng.random_range(58000..62000), the burst delay
BurstLow == 58000
BurstHigh == 62000
\* rng.random_range(-500..500), the call-time adjustment
AdjustLow == -500
AdjustHigh == 500
\* random streams rand::rng() is taken from
MaxSeed == 2

Seeds == 1..MaxSeed
NoSlot == 0 - 1

\* the draws of the burst delay and of micro_adjust the model follows: the ends
\* of each half-open range, and the values next to zero
BurstDraws == {BurstLow, BurstHigh - 1}
AdjustDraws == {AdjustLow, 0 - 1, 0, AdjustHigh - 1}

\* settings <<delay_range_min, delay_range_max, random_deviation_min,
\* random_deviation_max>>: the defaults of config/constants.rs; the serde defaults
\* of the skipped fields (a settings file read back); a range across the floor;
\* the default range with another deviation; a range that starts below zero
DefaultSettings == <<69500, 70500, 0 - 50, 50>>
SerdeSettings == <<0, 0, 0, 0>>
LowSettings == <<44800, 45800, 0 - 50, 50>>
DeviationSettings == <<69500, 70500, 0, 0>>
NegativeSettings == <<0 - 2000, 100, 0 - 50, 50>>
\* a range with min > max, which random_range refuses
EmptySettings == <<70500, 69500, 0 - 50, 50>>

ValidSettings == {DefaultSettings, SerdeSettings, LowSettings, DeviationSettings, NegativeSettings}
AllSettings == ValidSettings \cup {EmptySettings}

\* a & b on unsigned integers
RECURSIVE BitAnd(_, _)
BitAnd(a, b) ==
    IF a = 0 \/ b = 0 THEN 0
    ELSE (a % 2) * (b % 2) + 2 * BitAnd(a \div 2, b \div 2)

\* `x as u64` of a float: negative values saturate to 0
AsU64(x) == IF x < 0 THEN 0 ELSE x

\* every subtraction gives zero
SaturatingSubZero(a, b) == 0

\* Duration::saturating_sub
SaturatingSub(a, b) == IF a < b THEN 0 ELSE a - b

\* the i-th draw of rng.random_range(lo..=hi) on stream `seed`
RandomRange(seed, i, lo, hi) == lo + ((seed * 104729 + i * 7919) % (hi - lo + 1))

\* initialize_delay_buffer: every slot gets Duration::from_micros((ms * 1000.0) as u64)
\* for a fresh ms = rng.random_range(min..=max); the buffer is the sequence of
\* its BufferLen slots
InitializeDelayBuffer(seed, lo, hi) ==
    SubSeq([i \in 1..BufferLen |-> AsU64(RandomRange(seed, i, lo, hi))], 1, BufferLen)

\* the buffers initialize_delay_buffer produces, by random stream and range: a
\* table of InitializeDelayBuffer (@@ has TLC build it once, not at every use)
Refilled ==
    [x \in Seeds \X {<<s[1], s[2]>> : s \in ValidSettings} |->
        InitializeDelayBuffer(x[1], x[2][1], x[2][2])] @@ <<>>

\* no DelayProvider has been constructed
NoDelayProvider ==
    /\ delay_buffer = <<>>
    /\ current_index = 0
    /\ delay_range_min = 0
    /\ delay_range_max = 0
    /\ random_deviation_min = 0
    /\ random_deviation_max = 0
    /\ burst_mode = FALSE
    /\ burst_counter = 0
    /\ panicked = FALSE
    /\ burst_served = FALSE
    /\ last_call = [op |-> "none", value |-> 0, slot |-> NoSlot]

\* DelayProvider::new with the settings s, burst mode b and random stream seed
DelayProviderNew(s, b, seed) ==
    /\ delay_buffer = Refilled[<<seed, <<s[1], s[2]>>>>]
    /\ current_index = 0
    /\ delay_range_min = s[1]
    /\ delay_range_max = s[2]
    /\ random_deviation_min = s[3]
    /\ random_deviation_max = s[4]
    /\ burst_mode = b
    /\ burst_counter = 0
    /\ panicked = FALSE
    /\ burst_served = FALSE
    /\ last_call = [op |-> "new", value |-> 0, slot |-> NoSlot]

\* the flag is flipped and the counter left where it was
ToggleBurstModeKeepsCounter ==
    /\ ~panicked
    /\ burst_mode' = ~burst_mode
    /\ burst_served' = FALSE
    /\ last_call' = [op |-> "toggle_burst_mode", value |-> burst_mode', slot |-> NoSlot]
    /\ UNCHANGED <<delay_buffer, current_index, delay_range_min, delay_range_max,
                   random_deviation_min, random_deviation_max, panicked, burst_counter>>
    /\ UNCHANGED <<gateVars, hwnd, clickVars, finderVars>>

\* toggle_burst_mode
ToggleBurstMode ==
    /\ ~panicked
    /\ burst_mode' = ~burst_mode
    /\ burst_counter' = 0
    /\ burst_served' = FALSE
    /\ last_call' = [op |-> "toggle_burst_mode", value |-> burst_mode', slot |-> NoSlot]
    /\ UNCHANGED <<delay_buffer, current_index, delay_range_min, delay_range_max,
                   random_deviation_min, random_deviation_max, panicked>>
    /\ UNCHANGED <<gateVars, hwnd, clickVars, finderVars>>

\* the comparison forgotten: every call counts as a change
AlwaysChanged(s) == TRUE

\* let settings_changed = self.delay_range_min != delay_range_min || ... ;
SettingsChanged(s) ==
    \/ delay_range_min # s[1]
    \/ delay_range_max # s[2]
    \/ random_deviation_min # s[3]
    \/ random_deviation_max # s[4]

\* update_settings(delay_range_min, delay_range_max, random_deviation_min,
\* random_deviation_max) with the random stream `seed`
update_settings(s, seed) ==
    LET settings_changed == SettingsChanged(s) IN
    /\ ~panicked
    /\ last_call' = [op |-> "update_settings", value |-> settings_changed, slot |-> NoSlot]
    /\ IF ~settings_changed
         THEN \* return;
              UNCHANGED <<delay_buffer, current_index, delay_range_min, delay_range_max,
                          random_deviation_min, random_deviation_max, burst_mode,
                          burst_counter, panicked, burst_served>>
         ELSE /\ delay_range_min' = s[1]
              /\ delay_range_max' = s[2]
              /\ random_deviation_min' = s[3]
              /\ random_deviation_max' = s[4]
              /\ IF s[1] > s[2]
                   THEN \* random_range panics on an empty range, at the first slot
                        panicked' = TRUE /\ UNCHANGED delay_buffer
                   ELSE /\ delay_buffer' = Refilled[<<seed, <<s[1], s[2]>>>>]
                        /\ UNCHANGED panicked
              /\ UNCHANGED <<current_index, burst_mode, burst_counter, burst_served>>

\* a call of update_settings on a DelayProvider used on its own
UpdateSettings(s, seed) ==
    /\ update_settings(s, seed)
    /\ UNCHANGED <<gateVars, hwnd, clickVars, finderVars>>

\* the floor forgotten
NoClamp(d) == d

\* if final_delay < Duration::from_micros(45000) { return Duration::from_micros(45000); }
\* final_delay
ClampToFloor(d) == IF d < FloorMicros THEN FloorMicros ELSE d

\* the index wraps one slot early
NextIndexShort(i) == (i + 1) % IndexMask

\* (self.current_index + 1) & 511
NextIndex(i) == BitAnd(i + 1, IndexMask)

\* base_delay.saturating_sub / saturating_add of |micro_adjust|
FinalDelay(base_delay, micro_adjust) ==
    IF micro_adjust < 0
      THEN SaturatingSub(base_delay, 0 - micro_adjust)
      ELSE base_delay + micro_adjust

\* get_next_delay: the burst delay and micro_adjust are drawn when they are used
GetNextDelay ==
    /\ ~panicked
    /\ IF burst_mode /\ burst_counter < 1
         THEN /\ burst_counter' = burst_counter + 1
              /\ \E burst \in BurstDraws :
                    last_call' = [op |-> "get_next_delay", value |-> burst, slot |-> NoSlot]
              /\ burst_served' = TRUE
              /\ UNCHANGED current_index
         ELSE /\ burst_counter' = IF burst_mode THEN 0 ELSE burst_counter
              /\ UNCHANGED burst_served
              /\ current_index' = NextIndex(current_index)
              /\ \E micro_adjust \in AdjustDraws :
                    last_call' =
                        [op |-> "get_next_delay",
                         value |-> ClampToFloor(FinalDelay(delay_buffer[current_index + 1], micro_adjust)),
                         slot |-> current_index]
    /\ UNCHANGED <<delay_buffer, delay_range_min, delay_range_max, random_deviation_min,
                   random_deviation_max, burst_mode, panicked>>
    /\ UNCHANGED <<gateVars, hwnd, clickVars, finderVars>>

(***************************************************************************)
(* Handle, ClickExecutor and click_loop: one pacing channel per mouse      *)
(* button, each with its own gate, DelayProvider and ClickExecutor.        *)
(***************************************************************************)
\* window handles the platform hands out
MaxHwnd == 2
\* click_loop iterations that reach execute_click, per channel
MaxIterations == 6
\* the history counters iterations and failure_run count up to this
MaxCounted == 12
Counted(n) == IF n < MaxCounted THEN n + 1 ELSE n

\* Handle::new: ptr::null_mut()
NullHwnd == 0
Hwnds == NullHwnd..MaxHwnd

\* MouseButton, and the channel click_loop(button) runs
Channels == {"Left", "Right"}
\* GameMode
GameModes == {"Combo", "Default"}

\* 1_000_000 / max_cps
MicrosPerSecond == 1000000
\* let down_time = 1
DownTime == 1
\* rng.gen_range(-500..=500)
JitterLow == -500
JitterHigh == 500
\* Duration::from_millis(20), the backoff after a failed execute_click
BackoffMicros == 20000
\* if consecutive_failures >= 3
FailureLimit == 3
\* click_controller.wait_for_signal(Duration::from_millis(50))
SignalTimeout == 50000

\* max_cps values the settings hold: 0, and the default
MaxCpsValues == {0, 15}
\* the draws of jitter the model follows
JitterDraws == {JitterLow, JitterHigh}

\* the closure of execute_click runs four steps (post, sleep, post, sleep);
\* a panic inside it ends it after 0..3 of them, 4 is the closure completing
ClosureSteps == 4

\* defaults::CLICK_DELAY_MICROS
ClickDelayMicros == 75

\* the mode strings a settings file may hold
ModeStrings == {"Combo", "combo", "COMBO", "", "Default", "Combo "}

\* the match ignores the case of the string
GameModeOfAnyCase(game_mode) ==
    IF game_mode \in {"Combo", "combo", "COMBO"} THEN "Combo" ELSE "Default"

\* match settings.left_game_mode.as_str() { "Combo" => GameMode::Combo,
\* _ => GameMode::Default }, the same for right_game_mode
GameModeOf(game_mode) == IF game_mode = "Combo" THEN "Combo" ELSE "Default"

\* ClickExecutor::new, then what ClickService::new sets for the channel
\* (set_max_cps runs before set_mouse_button, on the button new() chose)
ClickExecutorNew(button, max_cps, mode) ==
    [active |-> TRUE,
     current_button |-> button,
     left_max_cps |-> max_cps,
     right_max_cps |-> max_cps,
     left_game_mode |-> mode,
     right_game_mode |-> mode,
     left_click_delay_micros |-> ClickDelayMicros,
     right_click_delay_micros |-> ClickDelayMicros]

\* SyncController::new, as one object
SyncControllerNew == [enabled |-> FALSE, mutex |-> FALSE]

\* DelayProvider::new over the default ranges, as one object.  Its buffer is
\* written by initialize_delay_buffer only, so delay_buffer holds the random
\* stream and the range that filled it: Refilled gives its 512 slots.
ChannelProviderNew(b, seed) ==
    [delay_buffer |-> <<seed, <<DefaultSettings[1], DefaultSettings[2]>>>>,
     current_index |-> 0,
     delay_range_min |-> DefaultSettings[1],
     delay_range_max |-> DefaultSettings[2],
     random_deviation_min |-> DefaultSettings[3],
     random_deviation_max |-> DefaultSettings[4],
     burst_mode |-> b,
     burst_counter |-> 0]

\* the executors ClickService::new builds: left_click_executor and
\* right_click_executor for the two channels, and click_executor, which stays
\* on the button new() chose
ClickExecutorsNew(max_cps, mode) ==
    /\ click_executor =
          [c \in Channels \cup {"Service"} |->
              ClickExecutorNew(IF c = "Service" THEN "Left" ELSE c, max_cps, mode)]
    /\ executed = [c \in Channels |->
                     [op |-> "none", hwnd |-> NullHwnd, refused |-> FALSE,
                      result |-> FALSE, events |-> <<>>]]

NoClickExecutors ==
    /\ click_executor = <<>>
    /\ executed = <<>>

\* the gates, the DelayProviders and the ThreadControllers ClickService::new
\* builds for the two channels, the locals of their click_loop threads
\* (click_loop starts with set_adaptive_mode(!self.config.adaptive_cpu_mode)),
\* and the snapshot of the settings the service stores: the defaults
ClickLoopsNew(b, seed) ==
    /\ click_controller = [c \in Channels |-> SyncControllerNew]
    /\ delay_provider = [c \in Channels |-> ChannelProviderNew(b, seed)]
    /\ consecutive_failures = [c \in Channels |-> 0]
    /\ failure_run = [c \in Channels |-> 0]
    /\ iteration = [c \in Channels |-> [op |-> "none", logged |-> FALSE, slept |-> 0, waited |-> 0]]
    /\ iterations = [c \in Channels |-> 0]
    /\ thread_controller = [c \in Channels |-> [adaptive_mode |-> TRUE]]
    /\ settings = [target_process |-> "game.exe",
                   adaptive_cpu_mode |-> FALSE,
                   click_delay_micros |-> ClickDelayMicros,
                   timing |-> DefaultSettings]
    /\ clock = [c \in Channels |-> [now |-> 0, last_click |-> 0, blocked |-> 0, released |-> 0]]
    /\ smart_sleep = [pc |-> "none"]
    /\ key_state = [c \in Channels |-> FALSE]

NoClickLoops ==
    /\ click_controller = <<>>
    /\ delay_provider = <<>>
    /\ consecutive_failures = <<>>
    /\ failure_run = <<>>
    /\ iteration = <<>>
    /\ iterations = <<>>
    /\ thread_controller = <<>>
    /\ settings = <<>>
    /\ clock = <<>>
    /\ smart_sleep = [pc |-> "none"]
    /\ key_state = <<>>

\* the handle read is always null
HandleGetNull(h) == NullHwnd

\* Handle::get, under the handle's mutex
HandleGet(h) == h

\* Handle::set, by the discovery loop
HandleSet(h) ==
    /\ hwnd' = h
    /\ UNCHANGED <<click_controller, delay_provider, click_executor, executed,
                   consecutive_failures, failure_run, iteration, iterations,
                   thread_controller, settings, clock, smart_sleep, key_state>>
    /\ UNCHANGED <<gateVars, delayVars, finderVars>>

\* set_left_max_cps / set_right_max_cps through set_max_cps: the current
\* button selects the field
SetMaxCps(c, max_cps) ==
    /\ click_executor' =
          [click_executor EXCEPT ![c] =
              IF @.current_button = "Left"
                THEN [@ EXCEPT !.left_max_cps = max_cps]
                ELSE [@ EXCEPT !.right_max_cps = max_cps]]
    /\ UNCHANGED <<hwnd, click_controller, delay_provider, executed,
                   consecutive_failures, failure_run, iteration, iterations,
                   thread_controller, settings, clock, smart_sleep, key_state>>
    /\ UNCHANGED <<gateVars, delayVars, finderVars>>

\* set_left_game_mode / set_right_game_mode through set_game_mode
SetGameMode(c, mode) ==
    /\ click_executor' =
          [click_executor EXCEPT ![c] =
              IF @.current_button = "Left"
                THEN [@ EXCEPT !.left_game_mode = mode]
                ELSE [@ EXCEPT !.right_game_mode = mode]]
    /\ UNCHANGED <<hwnd, click_controller, delay_provider, executed,
                   consecutive_failures, failure_run, iteration, iterations,
                   thread_controller, settings, clock, smart_sleep, key_state>>
    /\ UNCHANGED <<gateVars, delayVars, finderVars>>

\* set_mouse_button
SetMouseButton(c, button) ==
    /\ click_executor' = [click_executor EXCEPT ![c].current_button = button]
    /\ UNCHANGED <<hwnd, click_controller, delay_provider, executed,
                   consecutive_failures, failure_run, iteration, iterations,
                   thread_controller, settings, clock, smart_sleep, key_state>>
    /\ UNCHANGED <<gateVars, delayVars, finderVars>>

\* set_active
SetActive(c, active) ==
    /\ click_executor' = [click_executor EXCEPT ![c].active = active]
    /\ UNCHANGED <<hwnd, click_controller, delay_provider, executed,
                   consecutive_failures, failure_run, iteration, iterations,
                   thread_controller, settings, clock, smart_sleep, key_state>>
    /\ UNCHANGED <<gateVars, delayVars, finderVars>>

\* execute_click returns at once on a null handle alone
RefusesNullOnly(h, e) == h = NullHwnd

\* if hwnd.is_null() || !self.active.load(SeqCst) { return false; }
Refuses(h, e) == h = NullHwnd \/ ~e.active

\* adjusted_delay.saturating_add_signed(jitter)
SaturatingAddSigned(a, d) == IF a + d < 0 THEN 0 ELSE a + d

\* the jitter is added and the result is not raised back
AdjustedDelayUnclamped(max_cps, game_mode, jitter) ==
    LET cps_delay == IF max_cps = 0 THEN MicrosPerSecond ELSE MicrosPerSecond \div max_cps
        base == SaturatingSub(cps_delay, DownTime)
    IN  IF game_mode = "Combo" THEN SaturatingAddSigned(base, jitter) ELSE base

\* the sleep after the release: cps_delay less down_time, in Combo mode with
\* the jitter added and then raised back to at least that
AdjustedDelay(max_cps, game_mode, jitter) ==
    LET cps_delay == IF max_cps = 0 THEN MicrosPerSecond ELSE MicrosPerSecond \div max_cps
        base == SaturatingSub(cps_delay, DownTime)
        jittered == SaturatingAddSigned(base, jitter)
    IN  IF game_mode = "Combo"
          THEN IF jittered < base THEN base ELSE jittered
          ELSE base

\* the press is posted again where the release belongs
ClosureEventsNoRelease(e, h, accepted, jitter) ==
    LET left == e.current_button = "Left"
        max_cps == IF left THEN e.left_max_cps ELSE e.right_max_cps
        game_mode == IF left THEN e.left_game_mode ELSE e.right_game_mode
        press == [kind |-> "post", hwnd |-> h, accepted |-> accepted,
                  msg |-> IF left THEN "WM_LBUTTONDOWN" ELSE "WM_RBUTTONDOWN"]
    IN  << press,
           [kind |-> "sleep", micros |-> DownTime],
           press,
           [kind |-> "sleep", micros |-> AdjustedDelay(max_cps, game_mode, jitter)] >>

\* the steps of the closure execute_click runs under catch_unwind: PostMessageA
\* of the press, smart_sleep(down_time), PostMessageA of the release,
\* smart_sleep(adjusted_delay).  accepted is what PostMessageA returned.
ClosureEvents(e, h, accepted, jitter) ==
    LET left == e.current_button = "Left"
        max_cps == IF left THEN e.left_max_cps ELSE e.right_max_cps
        game_mode == IF left THEN e.left_game_mode ELSE e.right_game_mode
    IN  << [kind |-> "post", hwnd |-> h, accepted |-> accepted,
            msg |-> IF left THEN "WM_LBUTTONDOWN" ELSE "WM_RBUTTONDOWN"],
           [kind |-> "sleep", micros |-> DownTime],
           [kind |-> "post", hwnd |-> h, accepted |-> accepted,
            msg |-> IF left THEN "WM_LBUTTONUP" ELSE "WM_RBUTTONUP"],
           [kind |-> "sleep", micros |-> AdjustedDelay(max_cps, game_mode, jitter)] >>

\* execute_click(hwnd) on the executor e: what it did and what it returned.
\* The value PostMessageA returns is dropped; catch_unwind turns a panic of the
\* closure into false.
ExecuteClickResult(e, h, panic_at, accepted, jitter) ==
    IF Refuses(h, e)
      THEN [op |-> "execute_click", hwnd |-> h, refused |-> TRUE, result |-> FALSE,
            events |-> <<>>]
      ELSE [op |-> "execute_click", hwnd |-> h, refused |-> FALSE,
            result |-> (panic_at = ClosureSteps),
            events |-> SubSeq(ClosureEvents(e, h, accepted, jitter), 1, panic_at)]

\* a direct call of execute_click on a channel's executor
ExecuteClick(c, h, panic_at, accepted, jitter) ==
    /\ executed' = [executed EXCEPT ![c] =
                       ExecuteClickResult(click_executor[c], h, panic_at, accepted, jitter)]
    /\ UNCHANGED <<hwnd, click_controller, delay_provider, click_executor,
                   consecutive_failures, failure_run, iteration, iterations,
                   thread_controller, settings, clock, smart_sleep, key_state>>
    /\ UNCHANGED <<gateVars, delayVars, finderVars>>

\* the closure reads the executor's fields when it uses them
CapturedLate(config, e) == e

\* the closure of execute_click uses the locals max_cps, game_mode and the
\* messages of `button`, read before it runs, not the executor's fields
Captured(config, e) == config

\* execute_click while setters run on the executor: the early return, or the
\* reads of current_button, max_cps and game_mode into locals (config: the
\* executor as the call saw it)
ExecuteClickStart(c, h) ==
    /\ executed[c].op # "executing"
    /\ executed' =
          [executed EXCEPT ![c] =
              IF Refuses(h, click_executor[c])
                THEN [op |-> "execute_click", hwnd |-> h, refused |-> TRUE,
                      result |-> FALSE, events |-> <<>>]
                ELSE [op |-> "executing", hwnd |-> h, refused |-> FALSE,
                      result |-> FALSE, events |-> <<>>, config |-> click_executor[c]]]
    /\ UNCHANGED <<hwnd, click_controller, delay_provider, click_executor,
                   consecutive_failures, failure_run, iteration, iterations,
                   thread_controller, settings, clock, smart_sleep, key_state>>
    /\ UNCHANGED <<gateVars, delayVars, finderVars>>

\* the next step of the closure of the call in progress; after the last one
\* execute_click returns true
ExecuteClickStep(c, accepted, jitter) ==
    /\ executed[c].op = "executing"
    /\ LET x == executed[c]
           n == Len(x.events) + 1
           e == Captured(x.config, click_executor[c])
       IN  executed' =
              [executed EXCEPT ![c] =
                  [x EXCEPT !.events = Append(@, ClosureEvents(e, x.hwnd, accepted, jitter)[n]),
                            !.op = IF n = ClosureSteps THEN "execute_click" ELSE "executing",
                            !.result = (n = ClosureSteps)]]
    /\ UNCHANGED <<hwnd, click_controller, delay_provider, click_executor,
                   consecutive_failures, failure_run, iteration, iterations,
                   thread_controller, settings, clock, smart_sleep, key_state>>
    /\ UNCHANGED <<gateVars, delayVars, finderVars>>

(***************************************************************************)
(* The gate and the DelayProvider of a channel, each an object that one    *)
(* thread at a time operates on.                                           *)
(***************************************************************************)
\* toggle: new_state = !enabled, stored in both views
Toggled(g) == [enabled |-> ~g.enabled, mutex |-> ~g.enabled]

\* force_enable
ForceEnabled(g) == IF g.enabled THEN g ELSE [enabled |-> TRUE, mutex |-> TRUE]

\* wait_for_signal reports every gate disabled
SignalledNever(g) == [g EXCEPT !.mutex = FALSE]

\* wait_for_signal reports every gate enabled
SignalledAlways(g) == [g EXCEPT !.mutex = TRUE]

\* wait_for_signal with no concurrent caller: the guarded bool is set from the
\* atomic flag, a wait on a disabled gate times out, and the bool is returned
Signalled(g) == [g EXCEPT !.mutex = g.enabled]

\* get_next_delay on the provider p: the provider it leaves and the delay
ChannelNextDelay(p, burst, micro_adjust) ==
    IF p.burst_mode /\ p.burst_counter < 1
      THEN [provider |-> [p EXCEPT !.burst_counter = @ + 1],
            delay |-> burst]
      ELSE [provider |-> [p EXCEPT !.burst_counter = IF p.burst_mode THEN 0 ELSE @,
                                   !.current_index = NextIndex(@)],
            delay |-> ClampToFloor(FinalDelay(Refilled[p.delay_buffer][p.current_index + 1],
                                              micro_adjust))]

\* both click_loop threads take the left channel's DelayProvider
ProviderOfLeft(button) == "Left"

\* the objects of ClickService that click_loop(button) and the per-button
\* control surface select: left_click_controller or right_click_controller,
\* left_delay_provider or right_delay_provider, left_click_executor or
\* right_click_executor
ControllerOf(button) == IF button = "Left" THEN "Left" ELSE "Right"
ProviderOf(button) == IF button = "Left" THEN "Left" ELSE "Right"
ExecutorOf(button) == IF button = "Left" THEN "Left" ELSE "Right"

\* force_enable_left_clicking / force_enable_right_clicking
ForceEnableChannel(c) ==
    /\ click_controller' =
          [click_controller EXCEPT ![ControllerOf(c)] = IF @.enabled THEN @ ELSE ForceEnabled(@)]
    /\ UNCHANGED <<hwnd, delay_provider, click_executor, executed,
                   consecutive_failures, failure_run, iteration, iterations,
                   thread_controller, settings, clock, smart_sleep, key_state>>
    /\ UNCHANGED <<gateVars, delayVars, finderVars>>

\* force_disable_left_clicking / force_disable_right_clicking
ForceDisableChannel(c) ==
    /\ click_controller' =
          [click_controller EXCEPT ![ControllerOf(c)] = IF ~@.enabled THEN @ ELSE Toggled(@)]
    /\ UNCHANGED <<hwnd, delay_provider, click_executor, executed,
                   consecutive_failures, failure_run, iteration, iterations,
                   thread_controller, settings, clock, smart_sleep, key_state>>
    /\ UNCHANGED <<gateVars, delayVars, finderVars>>

(***************************************************************************)
(* click_loop(button): one iteration of the while loop is one step.  c is  *)
(* the button of the thread; its locals are kept under c.                  *)
(***************************************************************************)
\* the log entry is written only after more than three failures
ReachesLimitLate(n) == n > FailureLimit

\* if consecutive_failures >= 3
ReachesLimit(n) == n >= FailureLimit

\* the time wait_for_signal(Duration::from_millis(50)) spends blocked in
\* condvar.wait_timeout: none on an enabled gate, the timeout on a gate that
\* stays disabled
Waited(g) == IF g.enabled THEN 0 ELSE SignalTimeout

\* an iteration that reaches execute_click
ClickLoopClick(c, panic_at, accepted, jitter, burst, micro_adjust, elapsed) ==
    /\ click_controller' = [click_controller EXCEPT ![ControllerOf(c)] = Signalled(@)]
    /\ click_controller'[ControllerOf(c)].mutex
    /\ iterations' = [iterations EXCEPT ![c] = Counted(@)]
    /\ LET x == ExecuteClickResult(click_executor[ExecutorOf(c)], HandleGet(hwnd),
                                   panic_at, accepted, jitter)
           n == consecutive_failures[c] + 1
           d == ChannelNextDelay(delay_provider[ProviderOf(c)], burst, micro_adjust)
       IN  /\ executed' = [executed EXCEPT ![ExecutorOf(c)] = x]
           /\ IF x.result
                THEN /\ consecutive_failures' = [consecutive_failures EXCEPT ![c] = 0]
                     /\ failure_run' = [failure_run EXCEPT ![c] = 0]
                     /\ delay_provider' = [delay_provider EXCEPT ![ProviderOf(c)] = d.provider]
                     /\ iteration' = [iteration EXCEPT ![c] =
                                         [op |-> "clicked", logged |-> FALSE,
                                          slept |-> SaturatingSub(d.delay, elapsed),
                                          waited |-> 0]]
                ELSE /\ consecutive_failures' =
                           [consecutive_failures EXCEPT ![c] = IF ReachesLimit(n) THEN 0 ELSE n]
                     /\ failure_run' = [failure_run EXCEPT ![c] = Counted(@)]
                     /\ iteration' = [iteration EXCEPT ![c] =
                                         [op |-> "failed", logged |-> ReachesLimit(n),
                                          slept |-> BackoffMicros, waited |-> 0]]
                     /\ UNCHANGED delay_provider
    /\ UNCHANGED <<hwnd, click_executor, thread_controller, settings, smart_sleep, key_state>>
    /\ UNCHANGED <<gateVars, delayVars, finderVars>>

\* the button is not looked at: the iteration goes on to execute_click
ClickLoopContinueUnheld(c, is_pressed) ==
    ClickLoopClick(c, ClosureSteps, TRUE, JitterHigh, BurstLow, 0, 0)

\* an iteration that ends at a `continue`: wait_for_signal returned false, or
\* the channel's mouse button is not held down.  The two iterations say what
\* the loop does and how long it sleeps; a specification adds what its clock
\* reads (the cadence specification) or leaves the clock out
ClickLoopContinue(c, is_pressed) ==
    /\ click_controller' = [click_controller EXCEPT ![ControllerOf(c)] = Signalled(@)]
    /\ ~click_controller'[ControllerOf(c)].mutex \/ ~is_pressed
    /\ iteration' = [iteration EXCEPT ![c] =
                        [op |-> "continue", logged |-> FALSE, slept |-> 0,
                         waited |-> Waited(click_controller[ControllerOf(c)])]]
    /\ UNCHANGED <<hwnd, delay_provider, click_executor, executed,
                   consecutive_failures, failure_run, iterations,
                   thread_controller, settings, smart_sleep, key_state>>
    /\ UNCHANGED <<gateVars, delayVars, finderVars>>

(***************************************************************************)
(* WindowFinder, over the platform's process table and top-level windows.  *)
(***************************************************************************)
\* process ids the platform hands out
MaxPid == 2

Pids == 1..MaxPid
\* last_found_pid: None
NoPid == 0
NoProcess == "none"
NoWindow == [pid |-> NoPid, visible |-> FALSE]

\* names of running processes, and names the settings give the target
ProcessNames == {"Game.exe", "other.exe"}
TargetNames == {"game.exe", "Game.exe", "other.exe"}

\* str::to_lowercase
ToLowercase(name) == IF name = "Game.exe" THEN "game.exe" ELSE name

\* Option<HWND>
None == [some |-> FALSE, hwnd |-> NullHwnd]
Some(h) == [some |-> TRUE, hwnd |-> h]

\* WindowFinder::new
WindowFinderNew(target_process) ==
    [target_process |-> target_process, last_found_pid |-> NoPid, require_visibility |-> TRUE]

\* window_check_active_interval and window_check_idle_interval, in seconds
ActiveInterval == 1
IdleInterval == 3
\* the loop has not slept yet
NoInterval == 0

\* no find_target_window call is in progress, and update_target_process has
\* not returned true
NotFinding == [pc |-> "idle", target_pid |-> NoPid, updated |-> FALSE, later |-> FALSE]

NoFound == [op |-> "none", name |-> "", result |-> None, changed |-> FALSE, path |-> "none"]

NoWindowFinder ==
    /\ window_finder = <<>>
    /\ processes = <<>>
    /\ windows = <<>>
    /\ found = NoFound
    /\ check_interval = NoInterval
    /\ finding = NotFinding

\* find_window_for_pid: EnumWindows calls enum_windows_callback on every
\* top-level window (here in the order of their handles), which keeps the last
\* window of the process that passes the visibility test
FindWindowForPid(f, pid) ==
    LET matching == {h \in DOMAIN windows :
                        /\ windows[h].pid = pid
                        /\ ~f.require_visibility \/ windows[h].visible}
    IN  IF matching = {} THEN None
        ELSE Some(CHOOSE h \in matching : \A g \in matching : g <= h)

\* the processes the scan of the process table can stop at: those whose name
\* equals the target name, both in lower case (the table is a hash map, the
\* scan stops at the first match in its iteration order)
Candidates(f) ==
    {p \in Pids : /\ processes[p] # NoProcess
                  /\ ToLowercase(processes[p]) = ToLowercase(f.target_process)}

\* the full scan of find_target_window, and the window lookup after it
FullScan(f) ==
    IF Candidates(f) = {}
      THEN {[finder |-> f, result |-> None, path |-> "scan"]}
      ELSE {[finder |-> [f EXCEPT !.last_found_pid = pid],
             result |-> FindWindowForPid(f, pid),
             path |-> "scan"] : pid \in Candidates(f)}

\* find_target_window on the finder f: the finder it leaves, what it returns,
\* and the path that produced it.  The handle is set to the window returned,
\* or to null when None is returned.
FindResults(f) ==
    IF f.last_found_pid # NoPid /\ FindWindowForPid(f, f.last_found_pid).some
      THEN {[finder |-> f, result |-> FindWindowForPid(f, f.last_found_pid), path |-> "fast"]}
      ELSE FullScan(f)

\* find_target_window on the shared handle
FindTargetWindow ==
    /\ \E r \in FindResults(window_finder) :
          /\ window_finder' = r.finder
          /\ hwnd' = r.result.hwnd
          /\ found' = [op |-> "find_target_window", name |-> "", result |-> r.result,
                       changed |-> FALSE, path |-> r.path]
    /\ UNCHANGED <<processes, windows, finding>>

\* one iteration of window_finder_loop: the interval is chosen from
\* self.is_enabled(), find_target_window runs, the thread sleeps the interval
WindowFinderLoop ==
    /\ check_interval' = IF enabled THEN ActiveInterval ELSE IdleInterval
    /\ FindTargetWindow
    /\ UNCHANGED <<gateVars, delayVars, clickVars>>

\* a different target is told apart by its lower-case form only
DiffersLowercase(a, b) == ToLowercase(a) # ToLowercase(b)

\* self.target_process == new_target_process
Differs(a, b) == a # b

\* update_target_process
update_target_process(new_target_process) ==
    /\ IF Differs(window_finder.target_process, new_target_process)
         THEN /\ window_finder' = [window_finder EXCEPT !.target_process = new_target_process,
                                                        !.last_found_pid = NoPid]
              /\ found' = [op |-> "update_target_process", name |-> new_target_process,
                           result |-> None, changed |-> TRUE, path |-> "none"]
         ELSE /\ UNCHANGED window_finder
              /\ found' = [op |-> "update_target_process", name |-> new_target_process,
                           result |-> None, changed |-> FALSE, path |-> "none"]

\* a call of update_target_process on a WindowFinder used on its own
UpdateTargetProcess(new_target_process) ==
    /\ update_target_process(new_target_process)
    /\ UNCHANGED <<hwnd, processes, windows, check_interval, finding>>
    /\ UNCHANGED <<gateVars, delayVars, clickVars>>

\* the platform: a process starts under a free pid
ProcessStart(p, name) ==
    /\ processes[p] = NoProcess
    /\ processes' = [processes EXCEPT ![p] = name]
    /\ UNCHANGED <<hwnd, window_finder, windows, found, check_interval, finding>>
    /\ UNCHANGED <<gateVars, delayVars, clickVars>>

\* the platform: a process exits and its windows are destroyed
ProcessExit(p) ==
    /\ processes[p] # NoProcess
    /\ processes' = [processes EXCEPT ![p] = NoProcess]
    /\ windows' = [h \in DOMAIN windows |-> IF windows[h].pid = p THEN NoWindow ELSE windows[h]]
    /\ UNCHANGED <<hwnd, window_finder, found, check_interval, finding>>
    /\ UNCHANGED <<gateVars, delayVars, clickVars>>

\* the platform: a running process creates a top-level window
WindowCreate(h, p, visible) ==
    /\ windows[h] = NoWindow
    /\ processes[p] # NoProcess
    /\ windows' = [windows EXCEPT ![h] = [pid |-> p, visible |-> visible]]
    /\ UNCHANGED <<hwnd, window_finder, processes, found, check_interval, finding>>
    /\ UNCHANGED <<gateVars, delayVars, clickVars>>

\* the platform: a window is shown or hidden
WindowShow(h) ==
    /\ windows[h] # NoWindow
    /\ windows' = [windows EXCEPT ![h].visible = ~@]
    /\ UNCHANGED <<hwnd, window_finder, processes, found, check_interval, finding>>
    /\ UNCHANGED <<gateVars, delayVars, clickVars>>

\* the platform: a window is destroyed
WindowDestroy(h) ==
    /\ windows[h] # NoWindow
    /\ windows' = [windows EXCEPT ![h] = NoWindow]
    /\ UNCHANGED <<hwnd, window_finder, processes, found, check_interval, finding>>
    /\ UNCHANGED <<gateVars, delayVars, clickVars>>

(***************************************************************************)
(* Settings reconciliation: settings_sync_loop calls                       *)
(* check_and_update_settings every five seconds.                           *)
(***************************************************************************)
\* the snapshots Settings::load returns: <<delay_range_min, delay_range_max,
\* random_deviation_min, random_deviation_max>> as in the DelayProvider, with
\* the target's name, the adaptive CPU mode and click_delay_micros
Snapshots ==
    [target_process : {"game.exe", "other.exe"},
     adaptive_cpu_mode : BOOLEAN,
     click_delay_micros : {ClickDelayMicros, 0},
     timing : {DefaultSettings, SerdeSettings, DeviationSettings}]

\* every field counts as changed
FieldAlwaysChanged(old, new) == TRUE

\* let target_process_changed = target_process != target_process_new; and the
\* comparisons of the other fields
FieldChanged(old, new) == old # new

\* update_delay: the current button selects the field
UpdateDelay(e, click_delay_micros) ==
    IF e.current_button = "Left"
      THEN [e EXCEPT !.left_click_delay_micros = click_delay_micros]
      ELSE [e EXCEPT !.right_click_delay_micros = click_delay_micros]

\* check_and_update_settings, when Settings::load returned Ok(new_settings)
\* (on Err it logs and changes nothing); `seed` is the random stream of a
\* buffer refill
CheckAndUpdateSettings(new_settings, seed) ==
    LET target_process == settings.target_process
        adaptive_cpu_mode == settings.adaptive_cpu_mode
        click_delay_micros == settings.click_delay_micros
        timing == settings.timing
        target_process_changed == FieldChanged(target_process, new_settings.target_process)
        adaptive_cpu_mode_changed ==
            FieldChanged(adaptive_cpu_mode, new_settings.adaptive_cpu_mode)
        click_delay_changed == FieldChanged(click_delay_micros, new_settings.click_delay_micros)
        delay_range_changed ==
            \/ FieldChanged(timing[1], new_settings.timing[1])
            \/ FieldChanged(timing[2], new_settings.timing[2])
        deviation_changed ==
            \/ FieldChanged(timing[3], new_settings.timing[3])
            \/ FieldChanged(timing[4], new_settings.timing[4])
    IN  /\ settings' = new_settings
        /\ IF target_process_changed
             THEN update_target_process(new_settings.target_process)
             ELSE UNCHANGED <<window_finder, found>>
        /\ thread_controller' =
              IF adaptive_cpu_mode_changed
                THEN [thread_controller EXCEPT !["Left"].adaptive_mode = ~adaptive_cpu_mode]
                ELSE thread_controller
        /\ IF delay_range_changed \/ deviation_changed
             THEN \* self.delay_provider, with the values read from current_settings
                  update_settings(timing, seed)
             ELSE UNCHANGED delayVars
        /\ click_executor' =
              IF click_delay_changed
                THEN \* self.click_executor, with the value read from current_settings
                     [click_executor EXCEPT !["Service"] = UpdateDelay(@, click_delay_micros)]
                ELSE click_executor
        /\ UNCHANGED <<hwnd, processes, windows, check_interval, finding>>
        /\ UNCHANGED <<click_controller, delay_provider, executed, consecutive_failures,
                       failure_run, iteration, iterations, clock, smart_sleep, key_state>>
        /\ UNCHANGED gateVars

(***************************************************************************)
(* Specifications of the gate.                                             *)
(***************************************************************************)
ToggleStep(t) ==
    \/ ToggleLoad(t)
    \/ ToggleStore(t)
    \/ ToggleLock(t)

ForceEnableStep(t) ==
    \/ ForceEnableLoad(t)
    \/ ForceEnableStore(t)
    \/ ForceEnableLock(t)

WaitStep(w) ==
    \/ WaitCall(w)
    \/ WaitLock(w)
    \/ WaitBlock(w)
    \/ WaitTimeout(w)
    \/ WaitReacquire(w)

\* the operations of SyncController itself
GateStep(t) ==
    \/ CallToggle(t)
    \/ CallForceEnable(t)
    \/ ToggleStep(t)
    \/ ForceEnableStep(t)

\* a new gate with every caller and every waiter running
Init == GateNew(Threads, FALSE) /\ NoDelayProvider 
    /\ hwnd = NullHwnd /\ NoClickExecutors /\ NoClickLoops /\ NoWindowFinder

\* callers of toggle / force_enable against waiters in wait_for_signal
Next == \E t \in Threads : GateStep(t) \/ WaitStep(t)

Spec == Init /\ [][Next]_vars

\* writers that race each other, and wait_for_signal calls that overlap no
\* toggle() / force_enable() call: a writer moves only while no waiter is
\* inside wait_for_signal, a waiter only while no writer is inside a call
NextObserve ==
    \/ \E t \in Callers : (\A w \in Waiters : pc[w] = "idle") /\ GateStep(t)
    \/ \E w \in Waiters :
           (\A t \in Callers : pc[t] = "idle") /\ WaitStep(w)

SpecObserve == Init /\ [][NextObserve]_vars

\* only toggle() callers: N concurrent togglers on a new gate
InitToggle == GateNew(Callers, FALSE) /\ NoDelayProvider 
    /\ hwnd = NullHwnd /\ NoClickExecutors /\ NoClickLoops /\ NoWindowFinder

NextToggle == \E t \in Callers : CallToggle(t) \/ ToggleStep(t)

SpecToggle == InitToggle /\ [][NextToggle]_vars

\* one toggle() caller and no other writer, against the waiters
InitSolo == GateNew({1} \cup Waiters, FALSE) /\ NoDelayProvider
    /\ hwnd = NullHwnd /\ NoClickExecutors /\ NoClickLoops /\ NoWindowFinder

NextSolo ==
    \/ CallToggle(1)
    \/ ToggleStep(1)
    \/ \E w \in Waiters : WaitStep(w)

SpecSolo == InitSolo /\ [][NextSolo]_vars

\* only force_disable callers, on a gate that a completed toggle() has enabled
InitDisable == GateNew(Callers, TRUE) /\ NoDelayProvider 
    /\ hwnd = NullHwnd /\ NoClickExecutors /\ NoClickLoops /\ NoWindowFinder

DisableStep(t) ==
    \/ CallForceDisableLeft(t)
    \/ CallForceDisableClicking(t)
    \/ ForceDisableLeftCheck(t)
    \/ ForceDisableClickingCheck1(t)
    \/ ForceDisableClickingCheck2(t)
    \/ ToggleStep(t)

NextDisable == \E t \in Callers : DisableStep(t)

SpecDisable == InitDisable /\ [][NextDisable]_vars

\* The program's own configuration: one control thread and one pacing loop on
\* the gate.  Every running thread keeps being scheduled, and a blocked
\* wait_timeout ends when its timeout elapses.
InitFair == GateNew({1} \cup Waiters, FALSE) /\ NoDelayProvider 
    /\ hwnd = NullHwnd /\ NoClickExecutors /\ NoClickLoops /\ NoWindowFinder

Fairness ==
    /\ \A t \in Threads : WF_vars(ToggleStep(t) \/ ForceEnableStep(t))
    /\ \A w \in Waiters : WF_vars(WaitStep(w))

SpecFair == InitFair /\ [][Next]_vars /\ Fairness

(***************************************************************************)
(* Properties of the gate.                                                 *)
(***************************************************************************)
InToggle(t) == pc[t] \in {"t_load", "t_store", "t_lock"}

InForceEnable(t) == pc[t] \in {"fe_load", "fe_store", "fe_lock"}

\* some toggle() or force_enable() call is in progress
Writing == \E t \in Callers : InToggle(t) \/ InForceEnable(t)

AllIdle == \A t \in Callers : pc[t] = "idle"

RECURSIVE SumCalls(_)
SumCalls(S) == IF S = {} THEN 0 ELSE LET t == CHOOSE x \in S : TRUE IN calls[t] + SumCalls(S \ {t})

\* thread w returns from wait_for_signal in this step
WaitReturns(w) == pc[w] \in {"w_lock", "w_woken"} /\ pc'[w] = "idle"

\* thread t runs the critical section of an enabling toggle() / force_enable()
EnablingWrite(t) == pc[t] \in {"t_lock", "fe_lock"} /\ pc'[t] = "idle" /\ mutex'

\* C29: toggle() with no concurrent writer flips the gate and returns the new
\* state.  A new gate starts disabled in both views; the call finds the two
\* views equal and computes the negation of the state before the call; that
\* is what it returns and what is_enabled() reads right after it, and the
\* atomic flag and the guarded bool both hold it; after k calls the gate is
\* enabled iff k is odd, so two calls in a row restore the state.
C29_ToggleFlips ==
    [][ /\ calls[1] = 0 => ~enabled /\ ~mutex
        /\ CallToggle(1) => enabled = mutex
        /\ ToggleLoad(1) => new_state'[1] = ~enabled /\ enabled = mutex
        /\ ToggleLock(1) =>
              /\ returned'.op = "toggle"
              /\ returned'.value = new_state[1]
              /\ enabled' = returned'.value
              /\ mutex' = returned'.value
              /\ returned'.value = (calls[1] % 2 = 1) ]_vars

\* the second toggle() in a row has returned: the gate is disabled again
C29_Witness ==
    /\ calls[1] = 2
    /\ pc[1] = "idle"
    /\ returned = [op |-> "toggle", value |-> FALSE, notified |-> TRUE]
    /\ ~enabled /\ ~mutex

\* C33: observation reconciles the two views.  A wait_for_signal call that
\* overlaps no toggle() / force_enable() call sets the guarded bool to the
\* atomic flag when it takes the lock, whatever the two held, and when it
\* returns the guarded bool equals the atomic flag and is the value returned.
C33_ObservationReconciles ==
    [][\A w \in Waiters :
          /\ (pc[w] = "w_lock" /\ pc'[w] # "w_lock") => mutex' = enabled
          /\ (pc[w] \in {"w_lock", "w_woken"} /\ pc'[w] = "idle") =>
                /\ mutex' = enabled'
                /\ returned'.op = "wait_for_signal"
                /\ returned'.value = enabled']_vars

\* a wait that timed out on a gate two racing toggles left disabled
C33_Witness ==
    /\ \A t \in Callers : pc[t] = "idle" /\ calls[t] = 1
    /\ returned = [op |-> "wait_for_signal", value |-> FALSE, notified |-> FALSE]
    /\ \E w \in Waiters : wake[w] = "timeout" /\ pc[w] = "idle"
    /\ ~enabled /\ ~mutex

C1_ToggleParity == AllIdle => (enabled <=> (SumCalls(Callers) % 2 = 1))

\* C2: whenever no toggle()/force_enable() call is in progress, the atomic flag
\* and the mutex-guarded boolean hold the same value.
C2_ViewsConverge == ~Writing => (enabled = mutex)

C4_WaitReturnsState ==
    [][ \A w \in Waiters : (WaitReturns(w) /\ ~Writing) => returned'.value = enabled ]_vars

\* C5: force_enable() on an enabled gate changes neither view, returns true and
\* notifies nobody; on a disabled gate it stores true into the flag, sets the
\* guarded bool, wakes every waiter and returns true.
C5_ForceEnable ==
    [][ \A t \in Callers :
          /\ (pc[t] = "fe_load" /\ pc'[t] # "fe_load" /\ enabled) =>
                /\ pc'[t] = "idle"
                /\ returned' = [op |-> op[t], value |-> TRUE, notified |-> FALSE]
                /\ UNCHANGED <<enabled, mutex, mutex_owner, condvar, wake>>
                /\ \A w \in Waiters : pc'[w] = pc[w]
          /\ (pc[t] = "fe_load" /\ pc'[t] # "fe_load" /\ ~enabled) => pc'[t] = "fe_store"
          /\ (pc[t] = "fe_store" /\ pc'[t] # "fe_store") => enabled' /\ pc'[t] = "fe_lock"
          /\ (pc[t] = "fe_lock" /\ pc'[t] # "fe_lock") =>
                /\ mutex'
                /\ condvar' = {}
                /\ \A w \in condvar : pc'[w] = "w_woken" /\ wake'[w] = "notified"
                /\ returned' = [op |-> op[t], value |-> TRUE, notified |-> TRUE] ]_vars

\* force_enable() has returned true from an enabled gate without notifying
C5_Witness ==
    /\ returned = [op |-> "force_enable", value |-> TRUE, notified |-> FALSE]
    /\ enabled /\ mutex

\* C6: after concurrent force_disable calls on an enabled gate have all
\* completed, with no other writer, the gate is disabled.
C6_ForceDisableDisables == (AllIdle /\ SumCalls(Callers) >= 1) => ~enabled

\* C7: wait_for_signal returns without blocking when the gate is enabled at the
\* call, blocks on the condition variable at most once per call, and always
\* returns; so the loop around it comes back to its head again and again.
C7_WaitReturns ==
    /\ [][ \A w \in Waiters :
             /\ (pc[w] = "w_lock" /\ pc'[w] # "w_lock" /\ enabled) => pc'[w] = "idle"
             /\ (pc[w] = "w_woken" /\ pc'[w] # "w_woken") => pc'[w] = "idle"
             /\ (pc'[w] = "w_blocked" /\ pc[w] # "w_blocked") => pc[w] = "w_wait" ]_vars
    /\ \A w \in Waiters : (pc[w] # "idle") ~> (pc[w] = "idle")
    /\ \A w \in Waiters : []<>(pc[w] = "idle")

\* a wait on a gate that was never signalled has ended by its timeout, returning false
C7_Witness ==
    /\ \E w \in Waiters : pc[w] = "idle" /\ wake[w] = "timeout"
    /\ returned = [op |-> "wait_for_signal", value |-> FALSE, notified |-> FALSE]

(***************************************************************************)
(* Specification of the DelayProvider: one provider, constructed from any  *)
(* valid settings, under any sequence of calls.                            *)
(***************************************************************************)
InitDelay ==
    /\ GateNew({}, FALSE)
    /\ \E s \in ValidSettings, b \in BOOLEAN, seed \in Seeds : DelayProviderNew(s, b, seed)
    /\ hwnd = NullHwnd
    /\ NoClickExecutors
    /\ NoClickLoops
    /\ NoWindowFinder

CallUpdateSettings == \E s \in AllSettings, seed \in Seeds : UpdateSettings(s, seed)

NextDelay ==
    \/ GetNextDelay
    \/ CallUpdateSettings
    \/ ToggleBurstMode

SpecDelay == InitDelay /\ [][NextDelay]_vars

(***************************************************************************)
(* Properties of the DelayProvider.                                        *)
(***************************************************************************)
\* C36: toggle_burst_mode() flips the burst flag, resets the burst counter
\* to 0, returns the new value of the flag and leaves the buffer and the read
\* index as they were; a call that follows another one directly brings back
\* the flag the first one found.
C36_ToggleBurstFlips ==
    [][ToggleBurstMode =>
          /\ burst_mode' = ~burst_mode
          /\ burst_counter' = 0
          /\ last_call'.op = "toggle_burst_mode"
          /\ last_call'.value = burst_mode'
          /\ delay_buffer' = delay_buffer
          /\ current_index' = current_index
          /\ last_call.op = "toggle_burst_mode" => burst_mode' = ~last_call.value]_vars

\* a call that found burst mode on and the counter above zero, after reads
\* that moved the index
C36_Witness ==
    /\ last_call.op = "toggle_burst_mode"
    /\ last_call.value = FALSE
    /\ ~burst_mode
    /\ burst_counter = 0
    /\ current_index > 0

\* this step is a get_next_delay call (the only operation that records itself
\* as one, and it always changes burst_counter or current_index)
IsGetNextDelay == last_call'.op = "get_next_delay"

\* this step is an update_settings call that found one of the four values
\* different from the stored one and was handed a range with min <= max
SettingsChange ==
    /\ last_call'.op = "update_settings"
    /\ <<delay_range_min', delay_range_max', random_deviation_min', random_deviation_max'>>
          # <<delay_range_min, delay_range_max, random_deviation_min, random_deviation_max>>
    /\ delay_range_min' <= delay_range_max'

\* every one of the 512 slots of buffer b holds a delay of the range lo..hi
FilledFrom(b, lo, hi) ==
    /\ Len(b) = BufferLen
    /\ \A i \in 1..BufferLen : AsU64(lo) <= b[i] /\ b[i] <= AsU64(hi)

\* C8: every value get_next_delay returns is at least the floor (45,000 us),
\* on the buffer path and on the burst path, whatever the settings and
\* whatever calls came before.
C8_DelayFloor == (last_call.op = "get_next_delay") => (last_call.value >= FloorMicros)

\* a slot far below the floor has been read and the floor returned in its place
C8_Witness ==
    /\ last_call.op = "get_next_delay"
    /\ last_call.slot # NoSlot
    /\ delay_buffer[last_call.slot + 1] + AdjustHigh < FloorMicros
    /\ last_call.value = FloorMicros

\* C9 as stated: the read index advances by one modulo 512 on every
\* get_next_delay call.
C9_AdvancesEveryCall ==
    [][ IsGetNextDelay => current_index' = (current_index + 1) % BufferLen ]_vars

\* C9 as amended: the read index advances by one modulo 512 on every
\* get_next_delay call that reads the buffer, the call reads the slot the index
\* pointed at, and a call that returns the burst delay leaves the index where
\* it was; the index stays within 0..511 and the buffer keeps 512 slots.
C9_AdvancesEveryRead ==
    /\ [](current_index \in 0..(BufferLen - 1) /\ Len(delay_buffer) = BufferLen)
    /\ [][ IsGetNextDelay =>
             IF last_call'.slot = NoSlot
               THEN current_index' = current_index
               ELSE /\ last_call'.slot = current_index
                    /\ current_index' = (current_index + 1) % BufferLen ]_vars

\* the last slot has been read and the index has wrapped to the first
C9_Witness ==
    /\ last_call.op = "get_next_delay"
    /\ last_call.slot = BufferLen - 1
    /\ current_index = 0

\* C10: a settings change refills all 512 slots from the new range and resets
\* the read index to 0, whatever the index was.
C10_ReinitAndReset ==
    [][ SettingsChange =>
          /\ FilledFrom(delay_buffer', delay_range_min', delay_range_max')
          /\ current_index' = 0 ]_vars

\* this step is an update_settings call made with the four values already
\* stored (a call with any other value stores it)
SameSettings ==
    /\ last_call'.op = "update_settings"
    /\ ~panicked'
    /\ <<delay_range_min', delay_range_max', random_deviation_min', random_deviation_max'>>
          = <<delay_range_min, delay_range_max, random_deviation_min, random_deviation_max>>

\* C11: update_settings called with the four values already stored changes
\* neither the buffer contents, the read index, the burst flag nor the burst
\* counter.
C11_SameSettingsNoOp ==
    [][ SameSettings => UNCHANGED <<delay_buffer, current_index, burst_mode, burst_counter>> ]_vars

\* update_settings has returned early, on a provider that had served delays
C11_Witness ==
    /\ last_call = [op |-> "update_settings", value |-> FALSE, slot |-> NoSlot]
    /\ current_index > 0
    /\ burst_mode /\ burst_counter = 1

\* this step is a get_next_delay call that returns the burst delay
ReturnsBurst == IsGetNextDelay /\ last_call'.slot = NoSlot

\* C12: with burst mode enabled the first get_next_delay call after the
\* provider is built or burst mode toggled returns the burst delay without
\* reading the buffer, and no later call returns a burst delay until
\* toggle_burst_mode is called again: later calls read the buffer and advance
\* the index.
C12_OneBurstPerToggle ==
    [][ IsGetNextDelay =>
          IF burst_mode /\ ~burst_served
            THEN ReturnsBurst /\ current_index' = current_index
            ELSE ~ReturnsBurst /\ current_index' = (current_index + 1) % BufferLen ]_vars


(***************************************************************************)
(* Specification of the ClickExecutor: the setters and execute_click,      *)
(* called directly on one of the executors ClickService::new builds.       *)
(***************************************************************************)
InitExecutor ==
    /\ GateNew({}, FALSE)
    /\ NoDelayProvider
    /\ hwnd = NullHwnd
    /\ \E max_cps \in MaxCpsValues, mode \in GameModes : ClickExecutorsNew(max_cps, mode)
    /\ NoClickLoops
    /\ NoWindowFinder

NextExecutor ==
    \/ \E max_cps \in MaxCpsValues : SetMaxCps("Left", max_cps)
    \/ \E mode \in GameModes : SetGameMode("Left", mode)
    \/ \E button \in Channels : SetMouseButton("Left", button)
    \/ \E active \in BOOLEAN : SetActive("Left", active)
    \/ \E h \in Hwnds, panic_at \in 0..ClosureSteps, accepted \in BOOLEAN,
          jitter \in JitterDraws :
           ExecuteClick("Left", h, panic_at, accepted, jitter)

SpecExecutor == InitExecutor /\ [][NextExecutor]_vars

(***************************************************************************)
(* Properties of the ClickExecutor.                                        *)
(***************************************************************************)
\* C13: execute_click called with a null handle, or while the executor's active
\* flag is false, returns false at once: it posts no press and no release,
\* takes no sleep and changes no executor state.
C13_NullOrInactiveIsNoOp ==
    [][ \A c \in DOMAIN executed :
           (executed'[c] # executed[c] /\ (executed'[c].hwnd = NullHwnd \/ ~click_executor[c].active))
              => /\ executed'[c].result = FALSE
                 /\ executed'[c].events = <<>>
                 /\ click_executor' = click_executor ]_vars

\* an inactive executor has refused a call made with a window's handle
C13_Witness ==
    \E c \in DOMAIN executed :
        /\ executed[c].refused
        /\ executed[c].hwnd # NullHwnd
        /\ ~executed[c].result
        /\ ~click_executor[c].active

NextDispatch ==
    \/ \E max_cps \in MaxCpsValues : SetMaxCps("Left", max_cps)
    \/ \E mode \in GameModes : SetGameMode("Left", mode)
    \/ \E active \in BOOLEAN : SetActive("Left", active)
    \/ \E h \in {NullHwnd, MaxHwnd} : ExecuteClickStart("Left", h)
    \/ \E accepted \in BOOLEAN, jitter \in JitterDraws : ExecuteClickStep("Left", accepted, jitter)

SpecDispatch == InitExecutor /\ [][NextDispatch]_vars

(***************************************************************************)
(* Properties of a dispatch in progress.                                   *)
(***************************************************************************)
\* C25: set_max_cps, set_game_mode and set_active are observed by the next
\* dispatch and not retroactively: an execute_click call that starts sees the
\* values the setters that returned before it left (it refuses exactly on a
\* null handle or a false active flag, and reads the executor's fields as
\* they are), and every message and sleep of the call follows from the values
\* it read at its start, whatever the setters do while it runs.
C25_ObservedByNextDispatch ==
    [][ \A c \in DOMAIN executed :
           /\ (executed[c].op # "executing" /\ executed'[c] # executed[c]) =>
                 /\ executed'[c].refused <=>
                       (executed'[c].hwnd = NullHwnd \/ ~click_executor[c].active)
                 /\ ~executed'[c].refused => executed'[c].config = click_executor[c]
           /\ (executed[c].op = "executing" /\ executed'[c] # executed[c]) =>
                 LET n == Len(executed'[c].events)
                 IN  /\ n = Len(executed[c].events) + 1
                     /\ executed'[c].config = executed[c].config
                     /\ \E accepted \in BOOLEAN, jitter \in JitterDraws :
                           executed'[c].events[n] =
                              ClosureEvents(executed[c].config, executed[c].hwnd,
                                            accepted, jitter)[n] ]_vars

\* a call has completed with the delay of the max_cps and the game mode it
\* read at its start, after both were changed and the executor was stopped
\* while it ran
C25_Witness ==
    \E c \in DOMAIN executed :
        /\ executed[c].op = "execute_click"
        /\ executed[c].result
        /\ executed[c].config.left_max_cps # click_executor[c].left_max_cps
        /\ executed[c].config.left_game_mode # click_executor[c].left_game_mode
        /\ ~click_executor[c].active
        /\ executed[c].events[ClosureSteps].micros =
              AdjustedDelay(executed[c].config.left_max_cps,
                            executed[c].config.left_game_mode, JitterHigh)


(***************************************************************************)
(* Specification of a pacing loop: the click_loop thread of the left       *)
(* channel, while the control surface opens and closes the channel's gate, *)
(* starts and stops the executor, and the discovery loop sets the handle.  *)
(***************************************************************************)
InitLoop ==
    /\ GateNew({}, FALSE)
    /\ NoDelayProvider
    /\ hwnd = NullHwnd
    /\ ClickExecutorsNew(15, "Combo")
    /\ ClickLoopsNew(FALSE, 1)
    /\ NoWindowFinder

\* Of the calls inside the closure only rand::rng(), the first, can panic (the
\* thread's generator failing to initialise): PostMessageA, thread::sleep and
\* the saturating arithmetic cannot, so the closure ends before its first step
\* or runs to its end.
NextLoop ==
    \/ \E h \in {NullHwnd, MaxHwnd} : HandleSet(h)
    \/ \E active \in BOOLEAN : SetActive("Left", active)
    \/ ForceEnableChannel("Left")
    \/ ForceDisableChannel("Left")
    \/ \E is_pressed \in BOOLEAN : ClickLoopContinue("Left", is_pressed) /\ UNCHANGED clock
    \/ \E panic_at \in {0, ClosureSteps}, accepted \in BOOLEAN, jitter \in JitterDraws,
          micro_adjust \in {AdjustLow, 0}, elapsed \in {0, 100000} :
           /\ iterations["Left"] < MaxIterations
           /\ ClickLoopClick("Left", panic_at, accepted, jitter, BurstLow, micro_adjust, elapsed)
           /\ UNCHANGED clock

SpecLoop == InitLoop /\ [][NextLoop]_vars

(***************************************************************************)
(* Properties of click_loop.                                               *)
(***************************************************************************)
\* this step is an iteration of channel c's click_loop that called execute_click
IsClick(c) == iterations'[c] # iterations[c]

\* C14: a platform-level dispatch failure inside execute_click is reported as a
\* false return; after a false return the pacing loop takes its 20 ms backoff
\* sleep and goes on to its next iteration.
C14_DispatchFailureReported ==
    [][ \A c \in DOMAIN iterations :
           IsClick(c) =>
              /\ (\E i \in DOMAIN executed'[c].events :
                       /\ executed'[c].events[i].kind = "post"
                       /\ ~executed'[c].events[i].accepted)
                    => ~executed'[c].result
              /\ ~executed'[c].result =>
                    iteration'[c].op = "failed" /\ iteration'[c].slept = BackoffMicros ]_vars

\* C15: the consecutive-failure counter is reset to 0 by every successful
\* dispatch and by reaching 3, the log entry is written exactly on the 3rd,
\* 6th, ... failure in a row, and the counter is in {0,1,2} after every
\* iteration.
C15_FailureCounter ==
    [][ \A c \in DOMAIN iterations :
           IsClick(c) =>
              /\ consecutive_failures'[c] \in 0..(FailureLimit - 1)
              /\ consecutive_failures'[c] = failure_run'[c] % FailureLimit
              /\ executed'[c].result => consecutive_failures'[c] = 0
              /\ iteration'[c].logged <=>
                    (~executed'[c].result /\ failure_run'[c] % FailureLimit = 0) ]_vars

\* the sixth failure in a row has written the log entry and reset the counter
C15_Witness ==
    \E c \in DOMAIN iterations :
        /\ failure_run[c] = 2 * FailureLimit
        /\ iteration[c].logged
        /\ consecutive_failures[c] = 0


\* C23: no loop polls without yielding: every iteration of a pacing loop
\* contains a blocking step, a wait on the condition variable that blocks or
\* a sleep; in particular a pacing loop whose gate is enabled completes no
\* iteration without sleeping or blocking.  (window_finder_loop and
\* settings_sync_loop end every iteration in a sleep of 1 s, 3 s or 5 s.)
C23_EveryIterationBlocks ==
    \A c \in DOMAIN iteration :
        /\ iteration[c].op = "continue" => iteration[c].waited > 0
        /\ iteration[c].op \in {"clicked", "failed"} =>
              \/ iteration[c].slept > 0
              \/ \E i \in DOMAIN executed[ExecutorOf(c)].events :
                     /\ executed[ExecutorOf(c)].events[i].kind = "sleep"
                     /\ executed[ExecutorOf(c)].events[i].micros > 0


C32_DispatchThenDelay ==
    [][\A c \in DOMAIN iteration :
          LET x == executed'[ExecutorOf(c)]
              down == IF c = "Left" THEN "WM_LBUTTONDOWN" ELSE "WM_RBUTTONDOWN"
              up == IF c = "Left" THEN "WM_LBUTTONUP" ELSE "WM_RBUTTONUP"
          IN  /\ iterations'[c] # iterations[c] =>
                    /\ x.op = "execute_click"
                    /\ \/ x.events = <<>> /\ ~x.result
                       \/ /\ Len(x.events) = ClosureSteps
                          /\ x.events[1].kind = "post" /\ x.events[1].msg = down
                          /\ x.events[2].kind = "sleep"
                          /\ x.events[3].kind = "post" /\ x.events[3].msg = up
                          /\ x.events[4].kind = "sleep"
                          /\ x.result
                    /\ iteration'[c].op = IF x.result THEN "clicked" ELSE "failed"
              /\ delay_provider'[ProviderOf(c)] # delay_provider[ProviderOf(c)] =>
                    /\ iterations'[c] = iterations[c] + 1
                    /\ x.result
              /\ executed'[ExecutorOf(c)] # executed[ExecutorOf(c)] =>
                    iterations'[c] = iterations[c] + 1]_vars

\* the second dispatch in a row that ran to its end and advanced the provider
C32_Witness ==
    /\ iterations["Left"] = 2
    /\ iteration["Left"].op = "clicked"
    /\ delay_provider["Left"].current_index = 2
    /\ Len(executed["Left"].events) = ClosureSteps
    /\ executed["Left"].events[3].msg = "WM_LBUTTONUP"
    /\ executed["Left"].result

InitFinder ==
    /\ GateNew({}, FALSE)
    /\ NoDelayProvider
    /\ NoClickExecutors
    /\ NoClickLoops
    /\ hwnd = NullHwnd
    /\ \E target_process \in TargetNames : window_finder = WindowFinderNew(target_process)
    /\ processes = [p \in Pids |-> NoProcess]
    /\ windows = [h \in 1..MaxHwnd |-> NoWindow]
    /\ found = NoFound
    /\ check_interval = NoInterval
    /\ finding = NotFinding

NextFinder ==
    \/ WindowFinderLoop
    \/ \E new_target_process \in TargetNames : UpdateTargetProcess(new_target_process)
    \/ \E p \in Pids, name \in ProcessNames : ProcessStart(p, name)
    \/ \E p \in Pids : ProcessExit(p)
    \/ \E h \in 1..MaxHwnd, p \in Pids, visible \in BOOLEAN : WindowCreate(h, p, visible)
    \/ \E h \in 1..MaxHwnd : WindowShow(h)
    \/ \E h \in 1..MaxHwnd : WindowDestroy(h)

SpecFinder == InitFinder /\ [][NextFinder]_vars

(***************************************************************************)
(* Properties of the WindowFinder.                                         *)
(***************************************************************************)
\* the running processes of the target's name, letter case aside
TargetProcesses ==
    {p \in Pids : /\ processes[p] # NoProcess
                  /\ ToLowercase(processes[p]) = ToLowercase(window_finder.target_process)}

\* C16: find_target_window leaves the shared handle equal to its result: with
\* Some(h) the handle holds h, and on a total miss (target process not found,
\* or found but without a matching window) it returns None and the handle is
\* null.
C16_HandleIsResult ==
    [][ WindowFinderLoop =>
          /\ hwnd' = found'.result.hwnd
          /\ found'.result.some <=> hwnd' # NullHwnd
          /\ (\A p \in TargetProcesses : \A h \in DOMAIN windows :
                 windows[h].pid = p =>
                    window_finder.require_visibility /\ ~windows[h].visible)
                => ~found'.result.some /\ hwnd' = NullHwnd ]_vars


\* C17: update_target_process(name) with a name that differs from the current
\* target sets the target to name, sets last_found_pid to None and returns
\* true; with the current target's name it returns false and changes neither.
C17_UpdateTargetProcess ==
    [][ (\E name \in TargetNames : UpdateTargetProcess(name)) =>
          IF found'.name # window_finder.target_process
            THEN /\ window_finder'.target_process = found'.name
                 /\ window_finder'.last_found_pid = NoPid
                 /\ found'.changed
            ELSE /\ window_finder' = window_finder
                 /\ ~found'.changed ]_vars

\* a target found earlier has been replaced by one of another name
C17_Witness ==
    /\ found.op = "update_target_process"
    /\ found.changed
    /\ window_finder.target_process = found.name
    /\ window_finder.last_found_pid = NoPid
    /\ hwnd # NullHwnd

\* C18: for a target process whose pid and windows have not changed, find with
\* last_found_pid set and find with last_found_pid unset return the same
\* handle.
C18_FastPathIsFullScan ==
    window_finder.last_found_pid \in TargetProcesses =>
        \A a \in FindResults(window_finder) :
            \A b \in FindResults([window_finder EXCEPT !.last_found_pid = NoPid]) :
                a.result = b.result


(***************************************************************************)
(* Specification of the two channels: the per-button control surface of    *)
(* ClickService, the setters of each channel's executor and the two        *)
(* click_loop threads, once the discovery loop has found the target's      *)
(* window.                                                                 *)
(***************************************************************************)
\* click_loop iterations that reach execute_click, per channel, in SpecChannels
MaxClicks == 1

InitChannels ==
    /\ GateNew({}, FALSE)
    /\ NoDelayProvider
    /\ NoWindowFinder
    /\ hwnd = MaxHwnd
    /\ ClickExecutorsNew(15, "Combo")
    /\ \E b \in BOOLEAN : ClickLoopsNew(b, 1)

\* the operations on channel c: force_enable and force_disable of its gate,
\* set_left_click_cps / set_right_click_cps, set_game_mode and set_active on
\* the executor get_left_click_executor / get_right_click_executor returns,
\* and the iterations of its click_loop
ChannelStep(c) ==
    \/ ForceEnableChannel(c)
    \/ ForceDisableChannel(c)
    \/ \E max_cps \in MaxCpsValues : SetMaxCps(ExecutorOf(c), max_cps)
    \/ \E mode \in GameModes : SetGameMode(ExecutorOf(c), mode)
    \/ \E active \in BOOLEAN : SetActive(ExecutorOf(c), active)
    \/ \E is_pressed \in BOOLEAN : ClickLoopContinue(c, is_pressed) /\ UNCHANGED clock
    \/ /\ iterations[c] < MaxClicks
       /\ ClickLoopClick(c, ClosureSteps, TRUE, JitterHigh, BurstLow, 0, 0)
       /\ UNCHANGED clock

NextChannels == \E c \in Channels : ChannelStep(c)

SpecChannels == InitChannels /\ [][NextChannels]_vars

(***************************************************************************)
(* Properties of the channels.                                             *)
(***************************************************************************)
\* the gate, the executor and the DelayProvider of channel c
ChannelState(c) == <<click_controller[c], click_executor[c], delay_provider[c]>>

\* C19: an operation on one channel (force_enable or force_disable of its
\* gate, set_max_cps, set_game_mode or set_active on its executor,
\* get_next_delay on its DelayProvider in its click_loop) leaves the other
\* channel's gate, executor and DelayProvider as they were.
C19_ChannelsIndependent ==
    [][ \A a \in Channels : \A b \in Channels \ {a} :
           ChannelStep(a) => ChannelState(b)' = ChannelState(b) ]_vars

\* both pacing loops have dispatched and taken a delay while the left gate
\* has been disabled again and the right gate is still enabled
C19_Witness ==
    /\ iterations = [c \in Channels |-> 1]
    /\ \A c \in Channels : iteration[c].op = "clicked"
    /\ ~click_controller["Left"].enabled
    /\ click_controller["Right"].enabled


(***************************************************************************)
(* Specification of the discovery loop: window_finder_loop runs while one  *)
(* control thread toggles the gate of the service and the per-button       *)
(* control surface opens and closes the gates of the channels; the target  *)
(* process comes and goes.                                                 *)
(***************************************************************************)
InitDiscovery ==
    /\ GateNew({1}, FALSE)
    /\ NoDelayProvider
    /\ hwnd = NullHwnd
    /\ ClickExecutorsNew(15, "Combo")
    /\ ClickLoopsNew(FALSE, 1)
    /\ window_finder = WindowFinderNew("game.exe")
    /\ processes = [p \in Pids |-> NoProcess]
    /\ windows = [h \in 1..MaxHwnd |-> NoWindow]
    /\ found = NoFound
    /\ check_interval = NoInterval
    /\ finding = NotFinding

NextDiscovery ==
    \/ WindowFinderLoop
    \/ CallToggle(1)
    \/ ToggleStep(1)
    \/ \E c \in Channels : ForceEnableChannel(c)
    \/ \E c \in Channels : ForceDisableChannel(c)
    \/ ProcessStart(1, "Game.exe")
    \/ WindowCreate(1, 1, TRUE)
    \/ ProcessExit(1)

SpecDiscovery == InitDiscovery /\ [][NextDiscovery]_vars

(***************************************************************************)
(* Properties of the discovery loop.                                       *)
(***************************************************************************)
\* C20: in every iteration where at least one channel's gate is enabled the
\* discovery loop sleeps the short active interval (1 s), and it sleeps the
\* long idle interval (3 s) only when all channel gates are disabled.
C20_IntervalFollowsChannels ==
    [][ WindowFinderLoop =>
          check_interval' = IF \E c \in Channels : click_controller[c].enabled
                              THEN ActiveInterval ELSE IdleInterval ]_vars


(***************************************************************************)
(* Specification of the service: the reconciliation loop reloads the       *)
(* settings, while the discovery loop looks for the target, the control    *)
(* surface opens and closes the gate of the left channel and the left      *)
(* pacing loop runs.                                                       *)
(***************************************************************************)
InitService ==
    /\ GateNew({}, FALSE)
    /\ DelayProviderNew(DefaultSettings, FALSE, 1)
    /\ hwnd = NullHwnd
    /\ ClickExecutorsNew(15, "Combo")
    /\ ClickLoopsNew(FALSE, 1)
    /\ window_finder = WindowFinderNew(settings.target_process)
    /\ processes = [p \in Pids |-> NoProcess]
    /\ windows = [h \in 1..MaxHwnd |-> NoWindow]
    /\ found = NoFound
    /\ check_interval = NoInterval
    /\ finding = NotFinding

NextService ==
    \/ \E new_settings \in Snapshots : CheckAndUpdateSettings(new_settings, MaxSeed)
    \/ WindowFinderLoop
    \/ ProcessStart(1, "Game.exe")
    \/ WindowCreate(1, 1, TRUE)
    \/ ForceEnableChannel("Left")
    \/ ForceDisableChannel("Left")
    \/ \E is_pressed \in BOOLEAN : ClickLoopContinue("Left", is_pressed) /\ UNCHANGED clock
    \/ /\ iterations["Left"] < MaxClicks
       /\ ClickLoopClick("Left", ClosureSteps, TRUE, JitterHigh, BurstLow, 0, 0)
       /\ UNCHANGED clock

SpecService == InitService /\ [][NextService]_vars

(***************************************************************************)
(* Properties of the settings reconciliation.                              *)
(***************************************************************************)
\* C21: after a reconciliation pass whose reloaded snapshot differs from the
\* stored one in a timing field (delay range, deviation, click delay), the
\* DelayProvider and the ClickExecutor of each channel's click_loop hold the
\* reloaded snapshot's values in the changed fields.
C21_ChannelsHoldNewTiming ==
    [][ \A new_settings \in Snapshots :
           CheckAndUpdateSettings(new_settings, MaxSeed) =>
              \A c \in Channels :
                 LET p == delay_provider'[ProviderOf(c)]
                     e == click_executor'[ExecutorOf(c)]
                     old == settings.timing
                     new == new_settings.timing
                 IN  /\ old[1] # new[1] => p.delay_range_min = new[1]
                     /\ old[2] # new[2] => p.delay_range_max = new[2]
                     /\ old[3] # new[3] => p.random_deviation_min = new[3]
                     /\ old[4] # new[4] => p.random_deviation_max = new[4]
                     /\ settings.click_delay_micros # new_settings.click_delay_micros =>
                           new_settings.click_delay_micros =
                              IF e.current_button = "Left"
                                THEN e.left_click_delay_micros
                                ELSE e.right_click_delay_micros ]_vars

\* C22: a reconciliation pass updates a component only if the field it
\* depends on differs between the stored and the reloaded snapshot (the
\* DelayProvider for the delay range and the deviation, the executor for the
\* click delay, the WindowFinder for the target's name, the ThreadController
\* for the adaptive mode), so a pass over an equal snapshot updates nothing;
\* after any pass the stored snapshot is the reloaded one, so a second pass
\* over the same settings changes nothing.
C22_OnlyChangedFieldsPropagate ==
    [][ \A new_settings \in Snapshots :
           CheckAndUpdateSettings(new_settings, MaxSeed) =>
              /\ settings' = new_settings
              /\ delayVars' # delayVars =>
                    \E i \in 1..4 : settings.timing[i] # new_settings.timing[i]
              /\ click_executor' # click_executor =>
                    settings.click_delay_micros # new_settings.click_delay_micros
              /\ <<window_finder, found>>' # <<window_finder, found>> =>
                    settings.target_process # new_settings.target_process
              /\ thread_controller' # thread_controller =>
                    settings.adaptive_cpu_mode # new_settings.adaptive_cpu_mode
              /\ new_settings = settings => UNCHANGED vars ]_vars

\* a pass that found only the target's name changed has told the WindowFinder,
\* and has called neither the DelayProvider nor an executor
C22_Witness ==
    /\ settings.target_process = "other.exe"
    /\ window_finder.target_process = "other.exe"
    /\ found.op = "update_target_process"
    /\ last_call.op = "new"
    /\ click_executor["Service"].left_click_delay_micros = ClickDelayMicros
    /\ settings.timing = DefaultSettings

\* C34: when the reloaded settings change the adaptive-mode flag, the
\* reconciliation pass sets the ThreadController of every channel to the new
\* adaptive mode (the value set_adaptive_mode is called with, the negation of
\* the stored flag, which is the reloaded flag).
C34_EveryControllerFollows ==
    [][ \A new_settings \in Snapshots :
           /\ CheckAndUpdateSettings(new_settings, MaxSeed)
           /\ settings.adaptive_cpu_mode # new_settings.adaptive_cpu_mode
           => \A c \in Channels :
                 thread_controller'[c].adaptive_mode = new_settings.adaptive_cpu_mode ]_vars

\* C24: the shared handle has a single writer: only an iteration of the
\* discovery loop (find_target_window) changes it; the pacing loops, the
\* reconciliation pass and the control surface leave it unchanged, and a
\* pacing loop reads, under the mutex, the value the most recent find wrote
\* (or the initial null).
C24_SingleWriter ==
    [][ /\ hwnd' # hwnd => WindowFinderLoop
        /\ WindowFinderLoop => hwnd' = found'.result.hwnd
        /\ \A c \in Channels :
              iterations'[c] # iterations[c] => executed'[ExecutorOf(c)].hwnd = hwnd ]_vars

\* the pacing loop has dispatched to the window the discovery loop found,
\* after a reconciliation pass stored another snapshot
C24_Witness ==
    /\ hwnd # NullHwnd
    /\ iteration["Left"].op = "clicked"
    /\ executed["Left"].hwnd = hwnd
    /\ settings.timing # DefaultSettings


(***************************************************************************)
(* Specification of the cadence of one channel: the left click_loop at     *)
(* left_max_cps 10 in Default mode over a valid handle, on the clock of    *)
(* its thread.  Every sleep lasts as long as it was asked to and the rest  *)
(* of an iteration takes no time.  Iterations start in the first 1000 ms.  *)
(***************************************************************************)
\* the time the smart_sleep calls among the events take
SleepMicros(events) ==
    LET sum[i \in 0..Len(events)] ==
            IF i = 0 THEN 0
            ELSE sum[i - 1] + (IF events[i].kind = "sleep" THEN events[i].micros ELSE 0)
    IN  sum[Len(events)]

\* an iteration that ends at a `continue`: it lasts as long as wait_for_signal
\* blocked, and with the gate enabled and the button up it is one of a run of
\* polling iterations that lasts `polled` microseconds
TimedContinue(c, is_pressed, polled) ==
    /\ clock[c].now <= MicrosPerSecond
    /\ ClickLoopContinue(c, is_pressed)
    /\ LET waited == iteration'[c].waited
           spent == IF waited = 0 THEN polled ELSE 0
       IN  clock' = [clock EXCEPT ![c] =
                        [now |-> @.now + waited + spent,
                         last_click |-> @.last_click,
                         blocked |-> @.blocked + waited,
                         released |-> @.released + spent]]

\* an iteration that reaches execute_click: last_click.elapsed() is read after
\* the sleeps of execute_click, last_click is set after the loop's own sleep
TimedClick(c, jitter, burst, micro_adjust) ==
    /\ clock[c].now <= MicrosPerSecond
    /\ LET x == ExecuteClickResult(click_executor[ExecutorOf(c)], HandleGet(hwnd),
                                   ClosureSteps, TRUE, jitter)
           returned_at == clock[c].now + SleepMicros(x.events)
       IN  /\ ClickLoopClick(c, ClosureSteps, TRUE, jitter, burst, micro_adjust,
                             returned_at - clock[c].last_click)
           /\ clock' = [clock EXCEPT ![c] =
                           [now |-> returned_at + iteration'[c].slept,
                            last_click |-> IF x.result
                                             THEN returned_at + iteration'[c].slept
                                             ELSE @.last_click,
                            blocked |-> @.blocked,
                            released |-> @.released]]

InitCadence ==
    /\ GateNew({}, FALSE)
    /\ NoDelayProvider
    /\ NoWindowFinder
    /\ hwnd = MaxHwnd
    /\ ClickExecutorsNew(10, "Default")
    /\ \E b \in BOOLEAN : ClickLoopsNew(b, 1)

NextCadence ==
    \/ ForceEnableChannel("Left")
    \/ \E is_pressed \in BOOLEAN : TimedContinue("Left", is_pressed, 100000)
    \/ \E burst \in {BurstLow, BurstHigh}, micro_adjust \in {AdjustLow, 0} :
           TimedClick("Left", JitterHigh, burst, micro_adjust)

SpecCadence == InitCadence /\ [][NextCadence]_vars

ClickServiceNew(max_cps, game_mode) ==
    /\ click_executor = <<>>
    /\ click_executor' =
          [c \in Channels \cup {"Service"} |->
              ClickExecutorNew(IF c = "Service" THEN "Left" ELSE c, max_cps,
                               GameModeOf(game_mode))]
    /\ executed' = [c \in Channels |->
                      [op |-> "none", hwnd |-> NullHwnd, refused |-> FALSE,
                       result |-> FALSE, events |-> <<>>]]
    /\ UNCHANGED <<hwnd, click_controller, delay_provider,
                   consecutive_failures, failure_run, iteration, iterations,
                   thread_controller, settings, clock, smart_sleep, key_state>>
    /\ UNCHANGED <<gateVars, delayVars, finderVars>>

\* click_loop before its first iteration: set_adaptive_mode from the config,
\* consecutive_failures and last_click, then set_max_cps and set_game_mode
\* from a settings file read again
ClickLoopStart(c, adaptive_cpu_mode, max_cps, game_mode) ==
    /\ click_executor # <<>>
    /\ iteration[c].op = "none"
    /\ thread_controller' = [thread_controller EXCEPT ![c].adaptive_mode = ~adaptive_cpu_mode]
    /\ consecutive_failures' = [consecutive_failures EXCEPT ![c] = 0]
    /\ clock' = [clock EXCEPT ![c].last_click = clock[c].now]
    /\ click_executor' =
          [click_executor EXCEPT ![ExecutorOf(c)] =
              IF @.current_button = "Left"
                THEN [@ EXCEPT !.left_max_cps = max_cps,
                               !.left_game_mode = GameModeOf(game_mode)]
                ELSE [@ EXCEPT !.right_max_cps = max_cps,
                               !.right_game_mode = GameModeOf(game_mode)]]
    /\ UNCHANGED <<hwnd, click_controller, delay_provider, executed,
                   failure_run, iteration, iterations, settings, smart_sleep, key_state>>
    /\ UNCHANGED <<gateVars, delayVars, finderVars>>

InitModes ==
    /\ GateNew({}, FALSE)
    /\ NoDelayProvider
    /\ NoWindowFinder
    /\ hwnd = NullHwnd
    /\ NoClickExecutors
    /\ ClickLoopsNew(FALSE, 1)

NextModes ==
    \/ \E max_cps \in MaxCpsValues, game_mode \in ModeStrings :
           ClickServiceNew(max_cps, game_mode)
    \/ \E c \in Channels, max_cps \in MaxCpsValues, game_mode \in ModeStrings :
           ClickLoopStart(c, FALSE, max_cps, game_mode)
    \/ \E c \in Channels, active \in BOOLEAN :
           click_executor # <<>> /\ SetActive(ExecutorOf(c), active)
    \/ \E c \in Channels, mode \in GameModes :
           click_executor # <<>> /\ SetGameMode(ExecutorOf(c), mode)

SpecModes == InitModes /\ [][NextModes]_vars

\* C28: a mode string from the settings selects Combo if and only if it is
\* exactly "Combo"; every other string (another case, the empty string) gives
\* Default, and nothing fails: at the construction of the executors, where
\* both modes of every executor come from the string, and at the start of a
\* pacing loop, where the mode of the channel's button does
C28_ComboOnlyIfExact ==
    [][\A game_mode \in ModeStrings :
          LET mode == IF game_mode = "Combo" THEN "Combo" ELSE "Default"
          IN  /\ (\E max_cps \in MaxCpsValues : ClickServiceNew(max_cps, game_mode)) =>
                    \A c \in DOMAIN click_executor' :
                        /\ click_executor'[c].left_game_mode = mode
                        /\ click_executor'[c].right_game_mode = mode
              /\ \A c \in Channels :
                    (\E max_cps \in MaxCpsValues : ClickLoopStart(c, FALSE, max_cps, game_mode)) =>
                        LET e == click_executor'[ExecutorOf(c)]
                        IN  mode = IF e.current_button = "Left"
                                     THEN e.left_game_mode
                                     ELSE e.right_game_mode]_vars

\* an executor built from "combo" in Default mode, and a loop that started on
\* "Combo" over it
C28_Witness ==
    /\ click_executor # <<>>
    /\ click_executor["Service"].left_game_mode = "Default"
    /\ click_executor["Left"].left_game_mode = "Combo"
    /\ click_executor["Right"].right_game_mode = "Default"
    /\ click_executor["Right"].left_game_mode = "Default"


(***************************************************************************)
(* ThreadController::smart_sleep, one call at a time, in microseconds.     *)
(***************************************************************************)
\* Duration::from_millis(5): longer sleeps are taken in chunks
ChunkedAbove == 5000
\* chunk_size: Duration::from_millis(2)
ChunkSize == 2000

\* the call of smart_sleep(duration) on a controller in the given mode: the
\* else branch is one std::thread::sleep(duration) and the call is over
SmartSleep(adaptive_mode, duration) ==
    /\ smart_sleep.pc \in {"none", "done"}
    /\ smart_sleep' =
          IF adaptive_mode /\ duration > ChunkedAbove
            THEN [pc |-> "while", adaptive_mode |-> adaptive_mode, duration |-> duration,
                  remaining |-> duration, slept |-> 0, sleeps |-> 0, longest |-> 0,
                  yields |-> 0]
            ELSE [pc |-> "done", adaptive_mode |-> adaptive_mode, duration |-> duration,
                  remaining |-> 0, slept |-> duration, sleeps |-> 1, longest |-> duration,
                  yields |-> 0]
    /\ UNCHANGED <<hwnd, click_controller, delay_provider, click_executor, executed,
                   consecutive_failures, failure_run, iteration, iterations,
                   thread_controller, settings, clock, key_state>>
    /\ UNCHANGED <<gateVars, delayVars, finderVars>>

\* the loop is left with the rest of the duration not slept
SmartSleepStepShort ==
    /\ smart_sleep.pc = "while"
    /\ smart_sleep' =
          IF smart_sleep.remaining > ChunkSize
            THEN [smart_sleep EXCEPT !.remaining = @ - ChunkSize,
                                     !.slept = @ + ChunkSize,
                                     !.sleeps = @ + 1,
                                     !.longest = IF @ < ChunkSize THEN ChunkSize ELSE @,
                                     !.yields = @ + 1]
            ELSE [smart_sleep EXCEPT !.pc = "done"]
    /\ UNCHANGED <<hwnd, click_controller, delay_provider, click_executor, executed,
                   consecutive_failures, failure_run, iteration, iterations,
                   thread_controller, settings, clock, key_state>>
    /\ UNCHANGED <<gateVars, delayVars, finderVars>>

\* one test of `while remaining > chunk_size`: either sleep(chunk_size),
\* remaining -= chunk_size, yield_now(), or the loop is over and
\* `if remaining > Duration::ZERO { sleep(remaining) }` ends the call.
\* Duration's -= panics below zero; `remaining` is kept as an integer so that
\* a negative value shows.
SmartSleepStep ==
    /\ smart_sleep.pc = "while"
    /\ smart_sleep' =
          IF smart_sleep.remaining > ChunkSize
            THEN [smart_sleep EXCEPT !.remaining = @ - ChunkSize,
                                     !.slept = @ + ChunkSize,
                                     !.sleeps = @ + 1,
                                     !.longest = IF @ < ChunkSize THEN ChunkSize ELSE @,
                                     !.yields = @ + 1]
            ELSE IF smart_sleep.remaining > 0
              THEN [smart_sleep EXCEPT !.pc = "done",
                                       !.remaining = 0,
                                       !.slept = @ + smart_sleep.remaining,
                                       !.sleeps = @ + 1,
                                       !.longest = IF @ < smart_sleep.remaining
                                                     THEN smart_sleep.remaining ELSE @]
              ELSE [smart_sleep EXCEPT !.pc = "done"]
    /\ UNCHANGED <<hwnd, click_controller, delay_provider, click_executor, executed,
                   consecutive_failures, failure_run, iteration, iterations,
                   thread_controller, settings, clock, key_state>>
    /\ UNCHANGED <<gateVars, delayVars, finderVars>>

\* the durations the program sleeps (down_time, the backoff, the adjusted delay of
\* 15 and of 10 clicks per second) and those around the two thresholds
NextSleep ==
    \/ \E adaptive_mode \in BOOLEAN,
          duration \in {0, DownTime, ChunkSize, ChunkedAbove - 1, ChunkedAbove,
                        ChunkedAbove + 1, 3 * ChunkSize, 3 * ChunkSize + 1,
                        BackoffMicros, 66665, 99999} :
           SmartSleep(adaptive_mode, duration)
    \/ SmartSleepStep

SpecSleep == InitToggle /\ [][NextSleep]_vars

\* C35: smart_sleep(d) terminates for every d and sleeps exactly d in all.  In
\* adaptive mode with d > 5 ms it sleeps in chunks of at most 2 ms, with a
\* yield after each full chunk, and the chunks add up to d: what it has slept
\* and what remains always add up to d, the remaining duration never goes
\* below zero, and the loop ends within d / 2 ms + 1 sleeps.  Otherwise it
\* sleeps once, for d.
C35_SleepsExactly ==
    smart_sleep.pc # "none" =>
        LET z == smart_sleep
            chunked == z.adaptive_mode /\ z.duration > ChunkedAbove
        IN  /\ z.slept + z.remaining = z.duration
            /\ z.remaining >= 0
            /\ z.sleeps <= z.duration \div ChunkSize + 1
            /\ chunked => z.longest <= ChunkSize /\ z.yields * ChunkSize <= z.slept
            /\ z.pc = "done" =>
                  /\ z.slept = z.duration
                  /\ chunked => z.yields = (z.duration - 1) \div ChunkSize
                  /\ ~chunked => z.sleeps = 1 /\ z.yields = 0 /\ z.longest = z.duration

\* a chunked sleep of 6001 us: three chunks of 2 ms and a last sleep of 1 us
C35_Witness ==
    /\ smart_sleep.pc = "done"
    /\ smart_sleep.adaptive_mode
    /\ smart_sleep.duration = 3 * ChunkSize + 1
    /\ smart_sleep.sleeps = 4
    /\ smart_sleep.yields = 3
    /\ smart_sleep.slept = smart_sleep.duration


(***************************************************************************)
(* Specification of a pacing loop that runs for ever: the left click_loop  *)
(* over a valid handle and an active executor, against the user's mouse    *)
(* button and the control surface's force_enable and force_disable.  The   *)
(* loop's thread is scheduled fairly.                                      *)
(***************************************************************************)
\* the user presses or releases the mouse button of channel c
SetKeyState(c, down) ==
    /\ key_state' = [key_state EXCEPT ![c] = down]
    /\ UNCHANGED <<hwnd, click_controller, delay_provider, click_executor, executed,
                   consecutive_failures, failure_run, iteration, iterations,
                   thread_controller, settings, clock, smart_sleep>>
    /\ UNCHANGED <<gateVars, delayVars, finderVars>>

\* one iteration of click_loop, GetAsyncKeyState reading the button's state
ClickLoopIteration(c) ==
    \/ ClickLoopContinue(c, key_state[c]) /\ UNCHANGED clock
    \/ /\ key_state[c]
       /\ ClickLoopClick(c, ClosureSteps, TRUE, JitterHigh, BurstLow, 0, 100000)
       /\ UNCHANGED clock

NextLive ==
    \/ ForceEnableChannel("Left")
    \/ ForceDisableChannel("Left")
    \/ \E down \in BOOLEAN : SetKeyState("Left", down)
    \/ ClickLoopIteration("Left")

SpecLive == InitChannels /\ [][NextLive]_vars /\ WF_vars(ClickLoopIteration("Left"))

\* the channel is in its Active state
Active(c) ==
    /\ click_controller[ControllerOf(c)].enabled
    /\ hwnd # NullHwnd
    /\ click_executor[ExecutorOf(c)].active

\* this step is an iteration of channel c's loop that posted a press and a
\* release
Dispatches(c) ==
    /\ ClickLoopClick(c, ClosureSteps, TRUE, JitterHigh, BurstLow, 0, 100000)
    /\ executed'[ExecutorOf(c)].result
    /\ Len(executed'[ExecutorOf(c)].events) = ClosureSteps

FindFast ==
    /\ finding.pc = "idle"
    /\ LET r == IF window_finder.last_found_pid # NoPid
                  THEN FindWindowForPid(window_finder, window_finder.last_found_pid)
                  ELSE None
       IN  IF r.some
             THEN /\ hwnd' = r.hwnd
                  /\ found' = [op |-> "find_target_window", name |-> "", result |-> r,
                               changed |-> FALSE, path |-> "fast"]
                  /\ finding' = [finding EXCEPT !.later = finding.updated]
             ELSE /\ finding' = [finding EXCEPT !.pc = "scan", !.later = finding.updated]
                  /\ UNCHANGED <<hwnd, found>>
    /\ UNCHANGED <<window_finder, processes, windows, check_interval>>
    /\ UNCHANGED <<gateVars, delayVars, clickVars>>

\* lines 99-111: the scan of the process table under the lock of `system`,
\* which compares every name with self.target_process as it is read now
FindScan ==
    /\ finding.pc = "scan"
    /\ \E pid \in IF Candidates(window_finder) = {} THEN {NoPid} ELSE Candidates(window_finder) :
          finding' = [finding EXCEPT !.pc = "scanned", !.target_pid = pid]
    /\ UNCHANGED <<hwnd, window_finder, processes, windows, found, check_interval>>
    /\ UNCHANGED <<gateVars, delayVars, clickVars>>

\* lines 113-133: target_pid is stored in last_found_pid and its window is
\* looked up; the handle gets the window, or null on a miss
FindStore ==
    /\ finding.pc = "scanned"
    /\ LET r == IF finding.target_pid # NoPid
                  THEN FindWindowForPid(window_finder, finding.target_pid)
                  ELSE None
       IN  /\ window_finder' = IF finding.target_pid # NoPid
                                 THEN [window_finder EXCEPT !.last_found_pid = finding.target_pid]
                                 ELSE window_finder
           /\ hwnd' = r.hwnd
           /\ found' = [op |-> "find_target_window", name |-> "", result |-> r,
                        changed |-> FALSE, path |-> "scan"]
    /\ finding' = [finding EXCEPT !.pc = "idle", !.target_pid = NoPid]
    /\ UNCHANGED <<processes, windows, check_interval>>
    /\ UNCHANGED <<gateVars, delayVars, clickVars>>

\* update_target_process called by check_and_update_settings (click_service.rs
\* lines 218-221) at any point of a find; a call that returns true is the one
\* later finds are counted from
UpdateTargetProcessDuringFind(new_target_process) ==
    /\ update_target_process(new_target_process)
    /\ finding' = IF found'.changed
                    THEN [finding EXCEPT !.updated = TRUE, !.later = FALSE]
                    ELSE finding
    /\ UNCHANGED <<hwnd, processes, windows, check_interval>>
    /\ UNCHANGED <<gateVars, delayVars, clickVars>>

NextRace ==
    \/ FindFast
    \/ FindScan
    \/ FindStore
    \/ \E new_target_process \in TargetNames : UpdateTargetProcessDuringFind(new_target_process)
    \/ \E p \in Pids, name \in ProcessNames : ProcessStart(p, name)
    \/ \E h \in 1..MaxHwnd, p \in Pids, visible \in BOOLEAN : WindowCreate(h, p, visible)

SpecRace == InitFinder /\ [][NextRace]_vars

\* C37: once update_target_process has returned true, the handle written by
\* every find that starts afterwards is null or a window of a process of the
\* new target's name, however the call interleaved with a find in progress.
C37_LaterFindsUseNewTarget ==
    [][ (FindFast \/ FindStore) /\ finding'.pc = "idle" /\ finding'.later =>
          \/ hwnd' = NullHwnd
          \/ ToLowercase(processes[windows[hwnd'].pid]) =
                ToLowercase(window_finder'.target_process) ]_vars

(***************************************************************************)
(* The discovery loop under fair scheduling: window_finder_loop keeps      *)
(* calling find_target_window for as long as the service runs, while       *)
(* processes and windows come and go.                                      *)
(***************************************************************************)
SpecTrack == InitFinder /\ [][NextFinder]_vars /\ WF_vars(WindowFinderLoop)

\* process p carries the target's name and has a window find_window_for_pid
\* accepts
HasMatchingWindow(p) ==
    /\ p \in TargetProcesses
    /\ \E h \in DOMAIN windows :
          /\ windows[h].pid = p
          /\ ~window_finder.require_visibility \/ windows[h].visible

\* C38: while the discovery loop runs, if the target stays absent or without a
\* matching window the handle becomes null and stays null; if a process of the
\* target's name with a matching window stays present, whatever pid was cached
\* before, the handle becomes a window of a process of the target's name.
C38_TracksTarget ==
    /\ <>[](\A p \in Pids : ~HasMatchingWindow(p)) => <>[](hwnd = NullHwnd)
    /\ \A p \in Pids :
          <>[]HasMatchingWindow(p) =>
              []<>(hwnd # NullHwnd /\ windows[hwnd].pid \in TargetProcesses)

=============================================================================
